---- MODULE Spec2Model ----
(***************************************************************************)
(* Model of the plotting scripts' computational core:                      *)
(*   - pareto_frontier            (pareto_frontier.py)                     *)
(*   - plot_normalized_with_annotation (adj_space_plot.py), normalization  *)
(*   - plot_time_comparison_normalized (adj_time_plot.py), normalization   *)
(*   - plot_data_normalized_with_annotation (relabelling.py), normalization*)
(*   - format_annotation_with_ratio (config.py)                            *)
(*   - group_components            (memory.py)                             *)
(*   - generate_all_plots and __main__ (plot_all.py), control flow         *)
(* Python numbers are modelled exactly: a float is a reduced fraction or   *)
(* NaN; +infinity (only used for the running minimum and y coordinates) is *)
(* a distinguished value ordered above every finite number.                *)
(***************************************************************************)
EXTENDS Integers, Sequences, FiniteSets, TLC

\* ------------------------------------------------------------------ bounds
\* Largest finite coordinate of a generated point.
MaxCoord == 2
\* Longest generated input list of points.
MaxLen == 3
\* Largest raw measurement (bytes, ms) in a generated measurement table.
MaxVal == 1
\* Most successive calls made on one table.
MaxCalls == 3
\* Largest numerator and denominator of a generated ratio.
MaxNum == 4
\* Most components in a generated memory breakdown.
MaxKeys == 3

VARIABLES
    \* pareto_frontier: argument, return value, position of the call
    points, pareto_front, pf_pc,
    \* plot_normalized_with_annotation (adj_space_plot.py): arguments, locals,
    \* position, exception raised, messages printed
    data_to_plot, datasets_list, include_our_data, current_data,
    sp_normalized_sizes, sp_absolute_sizes_MB, sp_i, sp_pc, sp_exc, sp_printed,
    \* plot_time_comparison_normalized (adj_time_plot.py): argument, locals,
    \* the bars drawn, the y limit set, position, exception raised
    tm_data, tm_datasets, available_techniques, tm_i, tm_normalized_values, tm_bars, tm_ylim,
    tm_pc, tm_exc,
    \* plot_data_normalized_with_annotation (relabelling.py): arguments, locals,
    \* position, exception raised, messages printed, figure created
    data_dict, datasets_order, items_order, baseline_item_name,
    rl_normalized_values, rl_absolute_sizes_MB, rl_i, rl_pc, rl_exc, rl_printed,
    rl_fig,
    \* successive calls of plot_normalized_with_annotation: the module-level
    \* table the caller passes each time, the record of the calls made
    SPACE_DATA, call_log,
    \* format_annotation_with_ratio: the arguments of two calls, the texts
    \* returned, position
    fa_args, fa_text, fa_pc,
    \* group_components (memory.py): argument, return value, position
    detailed_data, grouped, gc_pc,
    \* plot_all.py run as a script: position, plotting step, exception in
    \* flight, the step that raised and what, working directory, the directory
    \* remembered by generate_all_plots, messages printed, whether
    \* verify_all_expected_plots ran, exit status
    ga_pc, ga_step, ga_exc, ga_raised, ga_cwd, original_cwd, ga_printed,
    ga_verified, ga_status,
    \* the files of the plots directory, whether scripts/memory-breakdown.json
    \* exists
    plot_files, memory_json_exists,
    \* plot_pareto_for_datasets: argument, the order of its keys, positions of
    \* the two loops, the figure of the last iteration, the files saved so far,
    \* position
    space_data, pl_datasets, pl_q, pl_d, pl_fig, pl_saved, pl_pc,
    \* relabelling.py at import: the configured choice, the techniques to plot,
    \* position
    CHOSEN_TECHNIQUES_TO_PLOT, techniques_for_plot_final, ts_pc,
    \* repeated calls of pareto_frontier: the caller's list as built and as it
    \* stands, the frame of the call on it and of a call on another list, what
    \* the call that returned last left in its locals, the first and the
    \* latest result for the caller's list, position
    rp_given, rp_points, rp_frame, rp_other, rp_left, rp_first, rp_last, rp_pc,
    \* plot_memory_breakdown_stacked: argument, locals (total_size per dataset),
    \* position of the second loop, messages printed, position
    memory_data, grouped_data, all_components, total_sizes, proportions_data,
    mb_i, mb_printed, mb_pc,
    \* pareto_frontier on a list and on a rearrangement of it: the two lists,
    \* the two results, position of each call
    pm_points, pm_permuted, pm_front, pm_front_permuted, pm_pc

pf_vars == <<points, pareto_front, pf_pc>>

sp_vars == <<data_to_plot, datasets_list, include_our_data, current_data,
             sp_normalized_sizes, sp_absolute_sizes_MB, sp_i, sp_pc, sp_exc,
             sp_printed>>

tm_vars == <<tm_data, tm_datasets, available_techniques, tm_i, tm_normalized_values, tm_bars,
             tm_ylim, tm_pc, tm_exc>>

rl_vars == <<data_dict, datasets_order, items_order, baseline_item_name,
             rl_normalized_values, rl_absolute_sizes_MB, rl_i, rl_pc, rl_exc,
             rl_printed, rl_fig>>

cl_vars == <<SPACE_DATA, call_log>>

fa_vars == <<fa_args, fa_text, fa_pc>>

gc_vars == <<detailed_data, grouped, gc_pc>>

ga_vars == <<ga_pc, ga_step, ga_exc, ga_raised, ga_cwd, original_cwd, ga_printed,
             ga_verified, ga_status, plot_files, memory_json_exists>>

pl_vars == <<space_data, pl_datasets, pl_q, pl_d, pl_fig, pl_saved, pl_pc>>

ts_vars == <<CHOSEN_TECHNIQUES_TO_PLOT, techniques_for_plot_final, ts_pc>>

rp_vars == <<rp_given, rp_points, rp_frame, rp_other, rp_left, rp_first, rp_last, rp_pc>>

mb_vars == <<memory_data, grouped_data, all_components, total_sizes,
            proportions_data, mb_i, mb_printed, mb_pc>>

pm_vars == <<pm_points, pm_permuted, pm_front, pm_front_permuted, pm_pc>>

\* ------------------------------------------------------- pareto_frontier

\* float('inf'): encoded as -1, outside the non-negative coordinates, and
\* given its IEEE order by float_lt / float_le below.
inf == -1

\* a < b on floats (no NaN): inf is above every finite value, inf < inf is False.
float_lt(a, b) ==
    IF a = inf THEN FALSE
    ELSE IF b = inf THEN TRUE
    ELSE a < b

float_le(a, b) == a = b \/ float_lt(a, b)

\* Mutant of key_le: descending order (reverse=True).
key_le_desc(p, q) ==
    \/ float_lt(q[1], p[1])
    \/ (p[1] = q[1] /\ float_le(q[2], p[2]))

\* Tuple comparison of the sort keys (p[0], p[1]): key(p) <= key(q).
key_le(p, q) ==
    \/ float_lt(p[1], q[1])
    \/ (p[1] = q[1] /\ float_le(p[2], q[2]))

\* Insert p into the sorted sequence s after every element whose key is <= key(p)
\* (sorted() is stable: equal keys keep their input order).
RECURSIVE insert_sorted(_, _)
insert_sorted(s, p) ==
    IF s = <<>> THEN <<p>>
    ELSE IF key_le(s[Len(s)], p) THEN Append(s, p)
    ELSE Append(insert_sorted(SubSeq(s, 1, Len(s) - 1), p), s[Len(s)])

\* sorted(points, key=lambda p: (p[0], p[1]))
RECURSIVE sorted_points(_)
sorted_points(pts) ==
    IF pts = <<>> THEN <<>>
    ELSE insert_sorted(sorted_points(SubSeq(pts, 1, Len(pts) - 1)), pts[Len(pts)])

\* Mutant of below_min_y: the test y <= min_y.
below_min_y_le(y, min_y) == float_le(y, min_y)

\* The acceptance test of the scan: y < min_y.
below_min_y(y, min_y) == float_lt(y, min_y)

\* Mutant of scan: the running minimum is never updated after an acceptance.
RECURSIVE scan_no_update(_, _, _, _)
scan_no_update(sp, i, front, min_y) ==
    IF i > Len(sp) THEN front
    ELSE IF below_min_y(sp[i][2], min_y)
         THEN scan_no_update(sp, i + 1, Append(front, sp[i]), min_y)
         ELSE scan_no_update(sp, i + 1, front, min_y)

\* The scan loop over sorted_points from index i, with the frontier built so
\* far and the running minimum min_y.
RECURSIVE scan(_, _, _, _)
scan(sp, i, front, min_y) ==
    IF i > Len(sp) THEN front
    ELSE IF below_min_y(sp[i][2], min_y)
         THEN scan(sp, i + 1, Append(front, sp[i]), sp[i][2])
         ELSE scan(sp, i + 1, front, min_y)

\* Mutant of pareto_frontier: the scan runs over the input in the given order.
pareto_frontier_unsorted(pts) == scan(pts, 1, <<>>, inf)

\* Mutant of pareto_frontier: running minimum initialised to 0 instead of inf.
pareto_frontier_min0(pts) == scan(sorted_points(pts), 1, <<>>, 0)

pareto_frontier(pts) == scan(sorted_points(pts), 1, <<>>, inf)

\* ------------------------------------------------- inputs of pareto_frontier

XValues == 0 .. MaxCoord
YValues == (0 .. MaxCoord) \cup {inf}
Points == XValues \X YValues

RECURSIVE SeqsUpTo(_, _)
SeqsUpTo(S, n) ==
    IF n = 0 THEN {<<>>}
    ELSE LET shorter == SeqsUpTo(S, n - 1)
         IN shorter \cup {Append(s, e) : s \in {t \in shorter : Len(t) = n - 1}, e \in S}

\* The example of the documentation.
ExamplePoints == {<<1, 10>>, <<2, 5>>, <<3, 5>>, <<4, 1>>}
ExampleFrontier == <<<<1, 10>>, <<2, 5>>, <<4, 1>>>>

\* Every ordering of a finite set as a sequence.
Orderings(S) ==
    {s \in [1 .. Cardinality(S) -> S] : \A e \in S : \E i \in DOMAIN s : s[i] = e}

PointLists == SeqsUpTo(Points, MaxLen) \cup Orderings(ExamplePoints)

\* ------------------------------------------------------------ Python numbers

RECURSIVE gcd(_, _)
gcd(a, b) == IF b = 0 THEN a ELSE gcd(b, a % b)

\* A finite float, exactly: the fraction a / b (b > 0) in lowest terms.
Frac(a, b) ==
    LET g == gcd(a, b)
    IN [nan |-> FALSE, n |-> a \div g, d |-> b \div g]

\* np.nan
NaN == [nan |-> TRUE, n |-> 0, d |-> 1]

\* Python's x / y on numbers: ZeroDivisionError for a zero divisor, NaN when an
\* operand is NaN, the quotient otherwise.
PyDiv(x, y) ==
    IF x.nan \/ y.nan THEN [exc |-> "none", val |-> NaN]
    ELSE IF y.n = 0 THEN [exc |-> "ZeroDivisionError", val |-> NaN]
    ELSE [exc |-> "none", val |-> Frac(x.n * y.d, x.d * y.n)]

\* x * y on floats.
PyMul(x, y) ==
    IF x.nan \/ y.nan THEN NaN ELSE Frac(x.n * y.n, x.d * y.d)

\* x > y and x == y on floats (every comparison with NaN is False).
PyGt(x, y) == ~ x.nan /\ ~ y.nan /\ x.n * y.d > y.n * x.d

\* config.to_MB: byte_val / (1024 * 1024)
to_MB(byte_val) == PyDiv(Frac(byte_val, 1), Frac(1024 * 1024, 1)).val

\* ------------------------------------------------------- measurement tables

CSR_BASELINE_KEY == "CSR"
LOGGRAPH_KEY == "LogGraph"
CGRAPHINDEX_KEY == "CGraphIndex"
OUR_DATA_KEY == "Our"

\* The dataset names of a generated table, in ascending lexicographic order
\* (sorted(list(data.keys()))).
DatasetNames == <<"amazon", "dblp">>

Range(f) == {f[x] : x \in DOMAIN f}

\* The rows of a table: any subset of the keys K, each with a raw value.
Rows(K) == UNION {[S -> 0 .. MaxVal] : S \in SUBSET K}

Tables(K) == [Range(DatasetNames) -> Rows(K)]

\* Python's a <= b on two dataset names ('amazon' < 'dblp').
str_le(a, b) ==
    LET index(name) == CHOOSE i \in DOMAIN DatasetNames : DatasetNames[i] = name
    IN index(a) <= index(b)

\* name put at its place in an ascending list of names.
RECURSIVE insert_name(_, _)
insert_name(name, seq) ==
    IF seq = <<>> THEN <<name>>
    ELSE IF str_le(name, Head(seq)) THEN <<name>> \o seq
    ELSE <<Head(seq)>> \o insert_name(name, Tail(seq))

\* Mutant of sorted_names: list(data.keys()), the keys as the dict holds them.
unsorted_names(keys) == keys

\* sorted(list(data.keys())), keys being the dict's keys in insertion order.
RECURSIVE sorted_names(_)
sorted_names(keys) ==
    IF keys = <<>> THEN <<>>
    ELSE insert_name(Head(keys), sorted_names(Tail(keys)))

\* The orders a dict can hold the dataset names of table in.
KeyOrders(table) == Orderings(DOMAIN table)

\* The lists of dataset names a caller can pass: any names of the table, in
\* any order, none twice.
DatasetLists == UNION {Orderings(S) : S \in SUBSET Range(DatasetNames)}

\* ------------------------- adj_space_plot.plot_normalized_with_annotation

base_formats == <<CSR_BASELINE_KEY, LOGGRAPH_KEY, CGRAPHINDEX_KEY>>

current_formats(include) ==
    IF include THEN Append(base_formats, OUR_DATA_KEY) ELSE base_formats

\* copy.deepcopy(data_to_plot), with OUR_DATA_KEY popped from every dataset
\* when include_our_data is False.
copied_data(data, include) ==
    IF include THEN data
    ELSE [ds \in DOMAIN data |->
            [k \in DOMAIN data[ds] \ {OUR_DATA_KEY} |-> data[ds][k]]]

\* Mutant of deepcopy: copy.copy(data), a new outer dict whose per-dataset
\* dicts are the caller's own.
shallow_copy(data) == [shares_rows |-> TRUE, table |-> data]

\* copy.deepcopy(data): a table equal to data that shares no dict with it.
deepcopy(data) == [shares_rows |-> FALSE, table |-> data]

\* The table the caller holds once lines 26-45 have run: a pop from a row of
\* current_data changes the caller's row exactly when both are the same dict.
caller_data(data, include) ==
    IF deepcopy(data).shares_rows THEN copied_data(deepcopy(data).table, include)
    ELSE data

\* Mutant of sp_ratio: the size is divided by the baseline converted to MB.
sp_ratio_mb(size, csr_size) == PyDiv(Frac(size, 1), to_MB(csr_size))

\* size / csr_size
sp_ratio(size, csr_size) == PyDiv(Frac(size, 1), Frac(csr_size, 1))

\* The inner loop over current_formats from position k for one dataset: the
\* two temp lists built so far, or the exception a division raised.
RECURSIVE sp_formats_loop(_, _, _, _, _, _)
sp_formats_loop(ds_values, formats, k, csr_size, temp_normalized, temp_absolute_MB) ==
    IF k > Len(formats)
    THEN [exc |-> "none", normalized |-> temp_normalized, absolute |-> temp_absolute_MB]
    ELSE IF formats[k] \in DOMAIN ds_values
    THEN LET size == ds_values[formats[k]]
             q == sp_ratio(size, csr_size)
         IN IF q.exc # "none"
            THEN [exc |-> q.exc, normalized |-> temp_normalized,
                  absolute |-> temp_absolute_MB]
            ELSE sp_formats_loop(ds_values, formats, k + 1, csr_size,
                                 Append(temp_normalized, q.val),
                                 Append(temp_absolute_MB, to_MB(size)))
    ELSE sp_formats_loop(ds_values, formats, k + 1, csr_size,
                         Append(temp_normalized, Frac(0, 1)),
                         Append(temp_absolute_MB, Frac(0, 1)))

SP_Idle ==
    /\ data_to_plot = <<>>
    /\ datasets_list = <<>>
    /\ include_our_data = FALSE
    /\ current_data = <<>>
    /\ sp_normalized_sizes = <<>>
    /\ sp_absolute_sizes_MB = <<>>
    /\ sp_i = 0
    /\ sp_pc = "idle"
    /\ sp_exc = "none"
    /\ sp_printed = <<>>

\* __main__ about to call plot_normalized_with_annotation(SPACE_DATA, datasets,
\* flag) on a table over all four formats.
SP_Init ==
    /\ data_to_plot \in Tables(Range(current_formats(TRUE)))
    /\ datasets_list = <<>>
    /\ include_our_data \in BOOLEAN
    /\ current_data = <<>>
    /\ sp_normalized_sizes = <<>>
    /\ sp_absolute_sizes_MB = <<>>
    /\ sp_i = 0
    /\ sp_pc = "main"
    /\ sp_exc = "none"
    /\ sp_printed = <<>>

\* A call of plot_normalized_with_annotation on a table over the baseline and
\* one more format, either from __main__ or from a caller that passes a list
\* of datasets of its own.
SP_InitOrder ==
    /\ data_to_plot \in Tables({CSR_BASELINE_KEY, LOGGRAPH_KEY})
    /\ \/ datasets_list = <<>> /\ sp_pc = "main"
       \/ datasets_list \in DatasetLists /\ sp_pc = "called"
    /\ include_our_data \in BOOLEAN
    /\ current_data = <<>>
    /\ sp_normalized_sizes = <<>>
    /\ sp_absolute_sizes_MB = <<>>
    /\ sp_i = 0
    /\ sp_exc = "none"
    /\ sp_printed = <<>>

\* Line 145: datasets = sorted(list(SPACE_DATA.keys())), then the call.
SP_Main ==
    /\ sp_pc = "main"
    /\ \E keys \in KeyOrders(data_to_plot) : datasets_list' = sorted_names(keys)
    /\ sp_pc' = "main_called"
    /\ UNCHANGED <<data_to_plot, include_our_data, current_data, sp_normalized_sizes,
                   sp_absolute_sizes_MB, sp_i, sp_exc, sp_printed>>

\* Lines 26-51: the defensive copy, the choice of formats, the empty lists.
SP_Copy ==
    /\ sp_pc \in {"called", "main_called"}
    /\ current_data' = copied_data(data_to_plot, include_our_data)
    /\ data_to_plot' = caller_data(data_to_plot, include_our_data)
    /\ sp_i' = 1
    /\ sp_pc' = "loop"
    /\ UNCHANGED <<datasets_list, include_our_data,
                   sp_normalized_sizes, sp_absolute_sizes_MB, sp_exc, sp_printed>>

\* Mutant of rows_without_baseline: the dataset gets a row of zeros, one per
\* requested format.
rows_zero_filled(rows, formats) ==
    Append(rows, [k \in 1 .. Len(formats) |-> Frac(0, 1)])

\* Lines 54-56: after the warning the loop does `continue`, so the list of
\* rows built so far is left as it is.
rows_without_baseline(rows, formats) == rows

\* Lines 53-74: one iteration of the loop over datasets_list.
SP_Dataset ==
    /\ sp_pc = "loop"
    /\ sp_i <= Len(datasets_list)
    /\ LET ds_name == datasets_list[sp_i]
           ds_values == current_data[ds_name]
       IN IF CSR_BASELINE_KEY \notin DOMAIN ds_values
          THEN /\ sp_printed' = Append(sp_printed, <<"Warning: CSR data missing. Skipping.", ds_name>>)
               /\ sp_normalized_sizes' =
                      rows_without_baseline(sp_normalized_sizes,
                                            current_formats(include_our_data))
               /\ sp_absolute_sizes_MB' =
                      rows_without_baseline(sp_absolute_sizes_MB,
                                            current_formats(include_our_data))
               /\ sp_i' = sp_i + 1
               /\ UNCHANGED <<sp_pc, sp_exc>>
          ELSE LET r == sp_formats_loop(ds_values, current_formats(include_our_data), 1,
                                        ds_values[CSR_BASELINE_KEY], <<>>, <<>>)
               IN IF r.exc # "none"
                  THEN /\ sp_exc' = r.exc
                       /\ sp_pc' = "raised"
                       /\ UNCHANGED <<sp_normalized_sizes, sp_absolute_sizes_MB, sp_i,
                                      sp_printed>>
                  ELSE /\ sp_normalized_sizes' = Append(sp_normalized_sizes, r.normalized)
                       /\ sp_absolute_sizes_MB' = Append(sp_absolute_sizes_MB, r.absolute)
                       /\ sp_i' = sp_i + 1
                       /\ UNCHANGED <<sp_pc, sp_exc, sp_printed>>
    /\ UNCHANGED <<data_to_plot, datasets_list, include_our_data, current_data>>

\* Lines 76-83: after the loop, return when nothing was processed, go on to
\* the plotting stage otherwise.
SP_AfterLoop ==
    /\ sp_pc = "loop"
    /\ sp_i > Len(datasets_list)
    /\ IF sp_normalized_sizes = <<>>
       THEN /\ sp_printed' = Append(sp_printed, <<"No data to plot.", "">>)
            /\ sp_pc' = "returned"
       ELSE /\ sp_pc' = "plot"
            /\ UNCHANGED sp_printed
    /\ UNCHANGED <<data_to_plot, datasets_list, include_our_data, current_data,
                   sp_normalized_sizes, sp_absolute_sizes_MB, sp_i, sp_exc>>

\* ---------------------------- adj_time_plot.plot_time_comparison_normalized

techniques == <<CSR_BASELINE_KEY, LOGGRAPH_KEY, CGRAPHINDEX_KEY, OUR_DATA_KEY>>

\* The elements of seq that satisfy Keep, in the order of seq.
RECURSIVE SelectInOrder(_, _)
SelectInOrder(seq, keep) ==
    IF seq = <<>> THEN <<>>
    ELSE LET rest == SelectInOrder(Tail(seq), keep)
         IN IF Head(seq) \in keep THEN <<Head(seq)>> \o rest ELSE rest

\* any(data[ds][tech] > 0 for ds in datasets if tech in data[ds])
has_data(data, tech) ==
    \E ds \in DOMAIN data : tech \in DOMAIN data[ds] /\ data[ds][tech] > 0

\* Lines 30-35: the techniques with a positive value in some dataset.
filtered_techniques(data) ==
    SelectInOrder(techniques, {tech \in Range(techniques) : has_data(data, tech)})

\* Lines 47-59: the (normalized, absolute) pair of one technique in one dataset.
tm_entry(ds_values, technique, normalize_to) ==
    IF technique \in DOMAIN ds_values /\ normalize_to \in DOMAIN ds_values
    THEN LET base_value == ds_values[normalize_to]
             current_value == ds_values[technique]
         IN IF base_value > 0
            THEN [normalized |-> PyDiv(Frac(current_value, 1), Frac(base_value, 1)).val,
                  absolute |-> Frac(current_value, 1)]
            ELSE [normalized |-> Frac(0, 1), absolute |-> Frac(0, 1)]
    ELSE [normalized |-> Frac(0, 1), absolute |-> Frac(0, 1)]

\* max() of a non-empty list of floats without NaN.
RECURSIVE list_max(_)
list_max(seq) ==
    IF Len(seq) = 1 THEN seq[1]
    ELSE LET m == list_max(Tail(seq))
         IN IF PyGt(m, seq[1]) THEN m ELSE seq[1]

TM_Idle ==
    /\ tm_data = <<>>
    /\ tm_datasets = <<>>
    /\ available_techniques = <<>>
    /\ tm_i = 0
    /\ tm_normalized_values = <<>>
    /\ tm_bars = <<>>
    /\ tm_ylim = <<>>
    /\ tm_pc = "idle"
    /\ tm_exc = "none"

\* A call plot_time_comparison_normalized(data, title, filename).
TM_Init ==
    /\ tm_data \in Tables(Range(techniques))
    /\ tm_datasets = <<>>
    /\ available_techniques = <<>>
    /\ tm_i = 0
    /\ tm_normalized_values = <<>>
    /\ tm_bars = <<>>
    /\ tm_ylim = <<>>
    /\ tm_pc = "called"
    /\ tm_exc = "none"

\* A call plot_time_comparison_normalized(data, title, filename) on a table
\* over the baseline and one more technique.
TM_InitOrder ==
    /\ tm_data \in Tables({CSR_BASELINE_KEY, OUR_DATA_KEY})
    /\ tm_datasets = <<>>
    /\ available_techniques = <<>>
    /\ tm_i = 0
    /\ tm_normalized_values = <<>>
    /\ tm_bars = <<>>
    /\ tm_ylim = <<>>
    /\ tm_pc = "called"
    /\ tm_exc = "none"

\* Lines 27-40: the technique filter and the bar width 0.8 / len(available),
\* which raises ZeroDivisionError when no technique is left.
TM_Filter ==
    /\ tm_pc = "called"
    /\ \E keys \in KeyOrders(tm_data) : tm_datasets' = sorted_names(keys)
    /\ available_techniques' = filtered_techniques(tm_data)
    /\ IF filtered_techniques(tm_data) = <<>>
       THEN /\ tm_exc' = "ZeroDivisionError"
            /\ tm_pc' = "raised"
            /\ UNCHANGED tm_i
       ELSE /\ tm_i' = 1
            /\ tm_pc' = "loop"
            /\ UNCHANGED tm_exc
    /\ UNCHANGED <<tm_data, tm_normalized_values, tm_bars, tm_ylim>>

\* Lines 42-78: one iteration of the loop over available_techniques: the
\* technique's values over the sorted datasets, drawn as one group of bars.
TM_Technique ==
    /\ tm_pc = "loop"
    /\ tm_i <= Len(available_techniques)
    /\ LET technique == available_techniques[tm_i]
           entries == [j \in DOMAIN tm_datasets |->
                          tm_entry(tm_data[tm_datasets[j]], technique, CSR_BASELINE_KEY)]
           normalized_values == [j \in DOMAIN entries |-> entries[j].normalized]
           absolute_values == [j \in DOMAIN entries |-> entries[j].absolute]
       IN /\ tm_normalized_values' = normalized_values
          /\ tm_bars' = Append(tm_bars, [technique |-> technique,
                                         normalized |-> normalized_values,
                                         absolute |-> absolute_values])
    /\ tm_i' = tm_i + 1
    /\ UNCHANGED <<tm_data, tm_datasets, available_techniques, tm_ylim, tm_pc, tm_exc>>

\* Lines 80-101: the y limit from the values of the last technique drawn, and
\* the save.
TM_Finish ==
    /\ tm_pc = "loop"
    /\ tm_i > Len(available_techniques)
    /\ tm_ylim' = IF tm_normalized_values # <<>>
                  THEN <<PyMul(list_max(tm_normalized_values), Frac(18, 10))>>
                  ELSE tm_ylim
    /\ tm_pc' = "returned"
    /\ UNCHANGED <<tm_data, tm_datasets, available_techniques, tm_i,
                   tm_normalized_values, tm_bars, tm_exc>>

\* ----------------------- relabelling.plot_data_normalized_with_annotation

\* The technique names of a generated relabelling table, in the order of
\* MASTER_TECHNIQUES_ORDER.
RelabelItems == <<"CSV", "random", "BFS">>

BASELINE_TECHNIQUE_NAME == "CSV"

\* The sub-lists of seq, each in the order of seq.
SubLists(seq) == {SelectInOrder(seq, S) : S \in SUBSET Range(seq)}

\* Mutant of baseline_value: a zero baseline is kept as it is.
baseline_value_raw(ds_values, baseline) == Frac(ds_values[baseline], 1)

\* Lines 74-78: the baseline value of a dataset, replaced by NaN when it is 0.
baseline_value(ds_values, baseline) ==
    IF ds_values[baseline] = 0 THEN NaN ELSE Frac(ds_values[baseline], 1)

\* Mutant of missing_item: the items of items_order are not looked up.
missing_item_unchecked(ds_values, items) == FALSE

\* Lines 81-83: some item of items_order is absent from the dataset.
missing_item(ds_values, items) ==
    \E k \in DOMAIN items : items[k] \notin DOMAIN ds_values

\* Mutant of rl_ratios: every size is divided by the baseline's MB value.
rl_ratios_mb(sizes, baseline_val) ==
    [k \in DOMAIN sizes |-> PyDiv(Frac(sizes[k], 1), PyMul(baseline_val, to_MB(1)))]

\* Line 88: [s / baseline_val for s in current_ds_item_sizes_bytes]
rl_ratios(sizes, baseline_val) ==
    [k \in DOMAIN sizes |-> PyDiv(Frac(sizes[k], 1), baseline_val)]

RL_Idle ==
    /\ data_dict = <<>>
    /\ datasets_order = <<>>
    /\ items_order = <<>>
    /\ baseline_item_name = ""
    /\ rl_normalized_values = <<>>
    /\ rl_absolute_sizes_MB = <<>>
    /\ rl_i = 0
    /\ rl_pc = "idle"
    /\ rl_exc = "none"
    /\ rl_printed = <<>>
    /\ rl_fig = FALSE

\* A call plot_data_normalized_with_annotation(data_dict, datasets_order,
\* items_order, ..., baseline_item_name, ...) with datasets_order =
\* sorted(list(data_dict.keys())) and the baseline 'CSV'.
RL_Init ==
    /\ data_dict \in Tables(Range(RelabelItems))
    /\ \E keys \in KeyOrders(data_dict) : datasets_order = sorted_names(keys)
    /\ items_order \in SubLists(RelabelItems)
    /\ baseline_item_name = BASELINE_TECHNIQUE_NAME
    /\ rl_normalized_values = <<>>
    /\ rl_absolute_sizes_MB = <<>>
    /\ rl_i = 1
    /\ rl_pc = "loop"
    /\ rl_exc = "none"
    /\ rl_printed = <<>>
    /\ rl_fig = FALSE

\* A call plot_data_normalized_with_annotation with a datasets_order of the
\* caller's own, on a table over the baseline and one more technique.
RL_InitOrder ==
    /\ data_dict \in Tables({"CSV", "random"})
    /\ datasets_order \in DatasetLists
    /\ items_order \in Orderings({"CSV", "random"})
    /\ baseline_item_name = BASELINE_TECHNIQUE_NAME
    /\ rl_normalized_values = <<>>
    /\ rl_absolute_sizes_MB = <<>>
    /\ rl_i = 1
    /\ rl_pc = "loop"
    /\ rl_exc = "none"
    /\ rl_printed = <<>>
    /\ rl_fig = FALSE

\* Lines 70-89: one iteration of the loop over datasets_order.
RL_Dataset ==
    /\ rl_pc = "loop"
    /\ rl_i <= Len(datasets_order)
    /\ LET ds_name == datasets_order[rl_i]
           ds_values == data_dict[ds_name]
       IN IF baseline_item_name \notin DOMAIN ds_values
          THEN /\ rl_exc' = "ValueError"
               /\ rl_pc' = "raised"
               /\ UNCHANGED <<rl_normalized_values, rl_absolute_sizes_MB, rl_i, rl_printed>>
          ELSE LET baseline_val == baseline_value(ds_values, baseline_item_name)
                   warned == IF ds_values[baseline_item_name] = 0
                             THEN Append(rl_printed, <<"Warning: Baseline value is 0.", ds_name>>)
                             ELSE rl_printed
               IN IF missing_item(ds_values, items_order)
                  THEN /\ rl_exc' = "ValueError"
                       /\ rl_pc' = "raised"
                       /\ rl_printed' = warned
                       /\ UNCHANGED <<rl_normalized_values, rl_absolute_sizes_MB, rl_i>>
                  ELSE IF \E k \in DOMAIN items_order : items_order[k] \notin DOMAIN ds_values
                  THEN \* line 84: data_dict[ds_name][item_name] on an absent key
                       /\ rl_exc' = "KeyError"
                       /\ rl_pc' = "raised"
                       /\ rl_printed' = warned
                       /\ UNCHANGED <<rl_normalized_values, rl_absolute_sizes_MB, rl_i>>
                  ELSE LET sizes == [k \in DOMAIN items_order |-> ds_values[items_order[k]]]
                           q == rl_ratios(sizes, baseline_val)
                       IN IF \E k \in DOMAIN q : q[k].exc # "none"
                          THEN /\ rl_exc' = "ZeroDivisionError"
                               /\ rl_pc' = "raised"
                               /\ rl_printed' = warned
                               /\ UNCHANGED <<rl_normalized_values, rl_absolute_sizes_MB,
                                              rl_i>>
                          ELSE /\ rl_normalized_values' =
                                     Append(rl_normalized_values,
                                            [k \in DOMAIN q |-> q[k].val])
                               /\ rl_absolute_sizes_MB' =
                                     Append(rl_absolute_sizes_MB,
                                            [k \in DOMAIN sizes |-> to_MB(sizes[k])])
                               /\ rl_i' = rl_i + 1
                               /\ rl_printed' = warned
                               /\ UNCHANGED <<rl_pc, rl_exc>>
    /\ UNCHANGED <<data_dict, datasets_order, items_order, baseline_item_name, rl_fig>>

\* Lines 91-104: after the loop, return without a figure when items_order is
\* empty, create the figure otherwise.
RL_AfterLoop ==
    /\ rl_pc = "loop"
    /\ rl_i > Len(datasets_order)
    /\ IF Len(items_order) = 0
       THEN /\ rl_printed' = Append(rl_printed, <<"No items to plot. Aborting plot generation.", "">>)
            /\ rl_pc' = "returned"
            /\ UNCHANGED rl_fig
       ELSE /\ rl_fig' = TRUE
            /\ rl_pc' = "plot"
            /\ UNCHANGED rl_printed
    /\ UNCHANGED <<data_dict, datasets_order, items_order, baseline_item_name,
                   rl_normalized_values, rl_absolute_sizes_MB, rl_i, rl_exc>>

\* ------------- successive calls of plot_normalized_with_annotation on one table

\* The loop of lines 53-74 over datasets from position i, as a whole: the rows
\* and messages accumulated in acc, up to the first exception.
RECURSIVE sp_datasets_loop(_, _, _, _, _)
sp_datasets_loop(current, datasets, i, formats, acc) ==
    IF i > Len(datasets) THEN acc
    ELSE LET ds_name == datasets[i]
             ds_values == current[ds_name]
         IN IF CSR_BASELINE_KEY \notin DOMAIN ds_values
            THEN sp_datasets_loop(current, datasets, i + 1, formats,
                    [acc EXCEPT
                        !.normalized = rows_without_baseline(@, formats),
                        !.absolute = rows_without_baseline(@, formats),
                        !.printed = Append(@, <<"Warning: CSR data missing. Skipping.",
                                                ds_name>>)])
            ELSE LET r == sp_formats_loop(ds_values, formats, 1,
                                          ds_values[CSR_BASELINE_KEY], <<>>, <<>>)
                 IN IF r.exc # "none"
                    THEN [acc EXCEPT !.exc = r.exc]
                    ELSE sp_datasets_loop(current, datasets, i + 1, formats,
                            [acc EXCEPT
                                !.normalized = Append(@, r.normalized),
                                !.absolute = Append(@, r.absolute)])

\* One whole call plot_normalized_with_annotation(data, datasets, include), up
\* to the plotting stage: what the lists hold, what was printed, the exception
\* raised if any, and the caller's table as the call leaves it.
plot_normalized_with_annotation(data, datasets, include) ==
    LET r == sp_datasets_loop(copied_data(data, include), datasets, 1,
                              current_formats(include),
                              [exc |-> "none", normalized |-> <<>>,
                               absolute |-> <<>>, printed |-> <<>>])
    IN [data_to_plot |-> caller_data(data, include),
        exc |-> r.exc,
        normalized |-> r.normalized,
        absolute |-> r.absolute,
        printed |-> IF r.exc = "none" /\ r.normalized = <<>>
                    THEN Append(r.printed, <<"No data to plot.", "">>)
                    ELSE r.printed]

CL_Idle ==
    /\ SPACE_DATA = <<>>
    /\ call_log = <<>>

\* The module-level table before any call.
CL_Init ==
    /\ SPACE_DATA \in Tables({CSR_BASELINE_KEY, LOGGRAPH_KEY, OUR_DATA_KEY})
    /\ call_log = <<>>

\* Lines 142-149 (and plot_all.py:55-63): one more call on the same table with
\* datasets = sorted(list(SPACE_DATA.keys())) and either flag; a caller that
\* catches an exception goes on calling.
CL_Call ==
    /\ Len(call_log) < MaxCalls
    /\ \E include \in BOOLEAN, keys \in KeyOrders(SPACE_DATA) :
          LET r == plot_normalized_with_annotation(SPACE_DATA, sorted_names(keys),
                                                   include)
          IN /\ call_log' = Append(call_log,
                                   [include |-> include,
                                    table_before |-> SPACE_DATA,
                                    table_after |-> r.data_to_plot,
                                    exc |-> r.exc,
                                    normalized |-> r.normalized,
                                    absolute |-> r.absolute])
             /\ SPACE_DATA' = r.data_to_plot

\* ---------------------------------- config.format_annotation_with_ratio

\* A str as the sequence of its characters; '' is <<>>.
DigitChars == <<"0", "1", "2", "3", "4", "5", "6", "7", "8", "9">>

\* str(n) of a non-negative int.
RECURSIVE decimal(_)
decimal(n) ==
    IF n < 10 THEN <<DigitChars[n + 1]>>
    ELSE Append(decimal(n \div 10), DigitChars[(n % 10) + 1])

\* f'{v:.1f}': 'nan' for NaN; otherwise the sign, then the magnitude rounded
\* to the nearest tenth. The float is rendered from its exact value, so a tie
\* is broken to the even tenth; within the bounds ties only arise for
\* quarters, which floats hold exactly.
format_1f(v) ==
    IF v.nan THEN <<"n", "a", "n">>
    ELSE LET mag == IF v.n < 0 THEN 0 - v.n ELSE v.n
             q == (10 * mag) \div v.d
             r == (10 * mag) % v.d
             tenths == IF 2 * r > v.d THEN q + 1
                       ELSE IF 2 * r < v.d THEN q
                       ELSE q + (q % 2)
             sign == IF v.n < 0 THEN <<"-">> ELSE <<>>
         IN sign \o decimal(tenths \div 10) \o <<".", DigitChars[(tenths % 10) + 1]>>

\* Python's x != y on floats (NaN differs from everything).
PyNe(x, y) == x.nan \/ y.nan \/ x.n * y.d # y.n * x.d

\* Mutant of format_annotation_with_ratio: the test against 1.0 is left out.
format_annotation_always(absolute_value, normalized_value, unit, show_ratio) ==
    IF show_ratio THEN Append(format_1f(normalized_value), "x") ELSE <<>>

\* Lines 64-80.
format_annotation_with_ratio(absolute_value, normalized_value, unit, show_ratio) ==
    IF show_ratio /\ PyNe(normalized_value, Frac(1, 1))
    THEN Append(format_1f(normalized_value), "x")
    ELSE <<>>

\* The ratios handed to the function: the fractions over small integers of
\* either sign, and NaN.
RatioValues ==
    {Frac(a, b) : a \in (0 - MaxNum) .. MaxNum, b \in 1 .. MaxNum} \cup {NaN}

AbsoluteValues == {Frac(a, 1) : a \in 0 .. MaxVal}

Units == {"MB", "ms", ""}

FA_Idle ==
    /\ fa_args = <<>>
    /\ fa_text = <<>>
    /\ fa_pc = "idle"

\* Two calls about to be made with the same normalized_value and show_ratio
\* and any absolute values and units.
FA_Init ==
    /\ \E v \in RatioValues, show \in BOOLEAN :
          fa_args \in [1 .. 2 -> { [absolute_value |-> a, normalized_value |-> v,
                                    unit |-> u, show_ratio |-> show] :
                                   a \in AbsoluteValues, u \in Units }]
    /\ fa_text = <<>>
    /\ fa_pc = "called"

\* The two calls format_annotation_with_ratio(absolute_value, normalized_value,
\* unit, show_ratio).
FA_Call ==
    /\ fa_pc = "called"
    /\ fa_text' = [i \in DOMAIN fa_args |->
                      format_annotation_with_ratio(fa_args[i].absolute_value,
                                                   fa_args[i].normalized_value,
                                                   fa_args[i].unit,
                                                   fa_args[i].show_ratio)]
    /\ fa_pc' = "returned"
    /\ UNCHANGED fa_args

\* ------------------------------------------------- memory.group_components

\* Lines 69-74.
accounted_components ==
    {"nodeAdjLists", "edgeAdjLists", "nodeParentLists",
     "nodeIntLikeProperties", "edgeIntLikeProperties",
     "nodeDoubleProperties", "edgeDoubleProperties",
     "varSize", "typesSystemOverhead", "labels", "nodePkToId"}

\* Lines 44-45.
fixed_components ==
    <<"nodeIntLikeProperties", "edgeIntLikeProperties",
      "nodeDoubleProperties", "edgeDoubleProperties">>

\* Component names of a generated JSON file that group_components does not
\* know.
UnknownComponents == {"stringPool", "edgeIndex"}

\* The dicts read from the JSON: at most MaxKeys components, known or not,
\* each with a byte count.
DetailedData ==
    UNION {[S -> 0 .. MaxVal] :
           S \in {T \in SUBSET (accounted_components \cup UnknownComponents) :
                     Cardinality(T) <= MaxKeys}}

\* Mutant of component_sum: only the first component of the list is counted.
component_sum_first(data, comps) ==
    IF comps # <<>> /\ comps[1] \in DOMAIN data THEN data[comps[1]] ELSE 0

\* `if comp in detailed_data: total += detailed_data[comp]` over comps.
RECURSIVE component_sum(_, _)
component_sum(data, comps) ==
    IF comps = <<>> THEN 0
    ELSE (IF Head(comps) \in DOMAIN data THEN data[Head(comps)] ELSE 0)
         + component_sum(data, Tail(comps))

\* Mutant of other_components_of: every component with a positive size.
all_components_of(data) == {comp \in DOMAIN data : data[comp] > 0}

\* Lines 78-79: the components the 'Other' loop takes.
other_components_of(data) ==
    {comp \in DOMAIN data : comp \notin accounted_components /\ data[comp] > 0}

\* Lines 76-81: other_total over the components taken.
RECURSIVE other_total_of(_, _)
other_total_of(data, comps) ==
    IF comps = {} THEN 0
    ELSE LET comp == CHOOSE c \in comps : TRUE
         IN data[comp] + other_total_of(data, comps \ {comp})

\* grouped[key] = value
dict_set(dict, key, value) ==
    [k \in DOMAIN dict \cup {key} |-> IF k = key THEN value ELSE dict[k]]

\* Mutant of set_if_positive: the group is stored whatever its total.
set_always(dict, key, value) == dict_set(dict, key, value)

\* `if total > 0: grouped[key] = total`
set_if_positive(dict, key, value) ==
    IF value > 0 THEN dict_set(dict, key, value) ELSE dict

\* Lines 16-88. '_other_details' holds the debugging strings, here the pairs
\* (component, whole MB) they are built from.
group_components(data) ==
    LET g1 == set_if_positive(<<>>, "Adjacency Lists",
                              component_sum(data, <<"nodeAdjLists", "edgeAdjLists">>))
        g2 == set_if_positive(g1, "Parent Lists",
                              component_sum(data, <<"nodeParentLists">>))
        g3 == set_if_positive(g2, "Fixed-size Properties",
                              component_sum(data, fixed_components))
        g4 == set_if_positive(g3, "Variable-size Properties",
                              component_sum(data, <<"varSize">>))
        g5 == set_if_positive(g4, "Type System",
                              component_sum(data, <<"typesSystemOverhead", "labels">>))
        g6 == set_if_positive(g5, "Node ID Mapping",
                              component_sum(data, <<"nodePkToId">>))
        other_total == other_total_of(data, other_components_of(data))
    IN IF other_total > 0
       THEN dict_set(dict_set(g6, "Other", other_total), "_other_details",
                     {<<comp, data[comp] \div (1024 * 1024)>> :
                         comp \in other_components_of(data)})
       ELSE g6

GC_Idle ==
    /\ detailed_data = <<>>
    /\ grouped = <<>>
    /\ gc_pc = "idle"

GC_Init ==
    /\ detailed_data \in DetailedData
    /\ grouped = <<>>
    /\ gc_pc = "called"

\* One call grouped = group_components(detailed_data).
GC_Call ==
    /\ gc_pc = "called"
    /\ grouped' = group_components(detailed_data)
    /\ gc_pc' = "returned"
    /\ UNCHANGED detailed_data

\* ------------------------------------- plot_all: generate_all_plots, __main__

\* The eight plotting steps of generate_all_plots, in order (lines 52-134).
PlotSteps ==
    <<"adjacency space", "memory breakdown", "adjacency time", "pareto",
      "graph database size", "graph database time",
      "graph database properties", "relabelling">>

\* What a plotting step can do: complete, or raise. ValueError is what
\* relabelling.py:72 and :83 raise; ZeroDivisionError stands for the other
\* subclasses of Exception; KeyboardInterrupt is not a subclass of Exception.
StepOutcomes == {"ok", "ValueError", "ZeroDivisionError", "KeyboardInterrupt"}

\* isinstance(exc, Exception)
is_Exception(exc) == exc \in {"ValueError", "ZeroDivisionError"}

\* Mutant of reraise: the handler ends without `raise`, the exception is
\* swallowed.
swallow(exc) == "none"

\* Line 150: `raise` inside the handler, the exception caught goes on
\* propagating.
reraise(exc) == exc

\* The directories the script can be started from.
StartDirs == {"scripts", "thesis"}

\* data.py:7-38 and 41-72: the keys of SPACE_DATA and of
\* TIME_NEIGHBORS_SINGLE_HOP.
space_datasets == {"prime", "dblp", "mag", "patents", "amazon"}
time_datasets == {"prime", "dblp", "mag", "patents", "amazon"}

\* A file of the plots directory: its sub-directory ("" for none) and name.
plot_file(name) == <<"", name>>

\* if os.path.exists(old): os.rename(old, new)
renamed(files, old, new) ==
    IF plot_file(old) \in files
    THEN (files \ {plot_file(old)}) \cup {plot_file(new)}
    ELSE files

\* pareto_frontier.py:40-44 and 92-93: one file per query type and key of
\* space_data.
pareto_files ==
    {<<"neighbors", dataset>> : dataset \in space_datasets}
    \cup {<<"2neighbors", dataset>> : dataset \in space_datasets}

\* Lines 52-134: the plots directory after a step that completes.
\* breakdown_saved: the JSON file held something to plot (memory.py:162-164
\* returns before the save otherwise).
after_step(files, step, json_exists, breakdown_saved) ==
    CASE step = "adjacency space" ->
            renamed(renamed(files \cup {plot_file("graph_size_normalized_annotated_without_our.pdf")},
                            "graph_size_normalized_annotated_without_our.pdf",
                            "adj_size_preliminary.pdf")
                       \cup {plot_file("graph_size_normalized_annotated_with_our.pdf")},
                    "graph_size_normalized_annotated_with_our.pdf",
                    "adj_size_comparison.pdf")
      [] step = "memory breakdown" ->
            IF json_exists
            THEN renamed(IF breakdown_saved
                         THEN files \cup {plot_file("memory_breakdown_stacked.pdf")}
                         ELSE files,
                         "memory_breakdown_stacked.pdf", "graph_db_memory_breakdown.pdf")
            ELSE files
      [] step = "adjacency time" ->
            files \cup {plot_file("adj_neighbors_comparison.pdf"),
                        plot_file("adj_2neighbors_comparison.pdf"),
                        plot_file("adj_combined_neighbors_comparison.pdf")}
      [] step = "pareto" -> files \cup pareto_files
      [] step = "graph database size" ->
            renamed(files \cup {plot_file("graphdb_storage_normalized_by_unzipped.pdf")},
                    "graphdb_storage_normalized_by_unzipped.pdf",
                    "graphdb_size_comparison.pdf")
      [] step = "graph database time" ->
            files \cup {plot_file("graphdb_neighbors_comparison.pdf")}
      [] step = "graph database properties" ->
            files \cup {plot_file("graphdb_properties_comparison.pdf")}
      [] step = "relabelling" ->
            renamed(files \cup {plot_file("relabelled_graph_size_normalized_annotated.pdf")},
                    "relabelled_graph_size_normalized_annotated.pdf", "relabelling.pdf")

\* Lines 158-175.
expected_files ==
    {plot_file("adj_size_preliminary.pdf"), plot_file("adj_size_comparison.pdf"),
     plot_file("graph_db_memory_breakdown.pdf"),
     plot_file("adj_neighbors_comparison.pdf"),
     plot_file("adj_2neighbors_comparison.pdf"),
     plot_file("adj_combined_neighbors_comparison.pdf"),
     plot_file("graphdb_size_comparison.pdf"),
     plot_file("graphdb_neighbors_comparison.pdf"),
     plot_file("graphdb_properties_comparison.pdf"),
     plot_file("relabelling.pdf")}
    \cup {<<"neighbors", dataset>> : dataset \in time_datasets}
    \cup {<<"2neighbors", dataset>> : dataset \in time_datasets}

\* Lines 177-189: the result, len(missing_files) == 0.
verify_all_expected_plots(files) == expected_files \subseteq files

GA_Idle ==
    /\ ga_pc = "idle"
    /\ ga_step = 0
    /\ ga_exc = "none"
    /\ ga_raised = <<>>
    /\ ga_cwd = ""
    /\ original_cwd = ""
    /\ ga_printed = <<>>
    /\ ga_verified = FALSE
    /\ ga_status = "running"
    /\ plot_files = {}
    /\ memory_json_exists = FALSE

\* python plot_all.py, before line 191, with an empty or absent plots
\* directory.
GA_Init ==
    /\ ga_pc = "main"
    /\ ga_step = 0
    /\ ga_exc = "none"
    /\ ga_raised = <<>>
    /\ ga_cwd \in StartDirs
    /\ original_cwd = ""
    /\ ga_printed = <<>>
    /\ ga_verified = FALSE
    /\ ga_status = "running"
    /\ plot_files = {}
    /\ memory_json_exists \in BOOLEAN

\* Lines 191-196 and 37-51: __main__ calls generate_all_plots, which creates
\* the plots directory, remembers the working directory, changes into the
\* plots directory and enters the try block.
GA_Start ==
    /\ ga_pc = "main"
    /\ original_cwd' = ga_cwd
    /\ ga_cwd' = "plots"
    /\ ga_printed' = ga_printed \o <<"Starting comprehensive plot generation...",
                                     "Generating all plots...">>
    /\ ga_step' = 1
    /\ ga_pc' = "steps"
    /\ UNCHANGED <<ga_exc, ga_raised, ga_verified, ga_status, plot_files,
                   memory_json_exists>>

\* Lines 52-134: one plotting step with its renames. It completes, or it
\* raises: a subclass of Exception is caught at line 148, anything else goes
\* straight to the finally clause. A step that raises does so before its
\* first save or after its last.
GA_Step ==
    /\ ga_pc = "steps"
    /\ ga_step <= Len(PlotSteps)
    /\ \E outcome \in StepOutcomes, breakdown_saved \in BOOLEAN :
          LET files == after_step(plot_files, PlotSteps[ga_step],
                                  memory_json_exists, breakdown_saved)
          IN IF outcome = "ok"
             THEN /\ ga_step' = ga_step + 1
                  /\ ga_pc' = IF ga_step = Len(PlotSteps) THEN "success" ELSE "steps"
                  /\ plot_files' = files
                  /\ UNCHANGED <<ga_exc, ga_raised>>
             ELSE /\ ga_exc' = outcome
                  /\ ga_raised' = <<PlotSteps[ga_step], outcome>>
                  /\ ga_pc' = IF is_Exception(outcome) THEN "except" ELSE "finally"
                  /\ plot_files' \in {plot_files, files}
                  /\ UNCHANGED ga_step
    /\ ga_printed' = Append(ga_printed, PlotSteps[ga_step])
    /\ UNCHANGED <<ga_cwd, original_cwd, ga_verified, ga_status, memory_json_exists>>

\* Lines 136-146: the success messages and the list of generated files.
GA_Success ==
    /\ ga_pc = "success"
    /\ ga_printed' = Append(ga_printed, "All plots generated successfully!")
    /\ ga_pc' = "finally"
    /\ UNCHANGED <<ga_step, ga_exc, ga_raised, ga_cwd, original_cwd, ga_verified,
                   ga_status, plot_files, memory_json_exists>>

\* Lines 148-150: except Exception as e: print(...); raise
GA_Except ==
    /\ ga_pc = "except"
    /\ ga_printed' = Append(ga_printed, "Error generating plots")
    /\ ga_exc' = reraise(ga_exc)
    /\ ga_pc' = "finally"
    /\ UNCHANGED <<ga_step, ga_raised, ga_cwd, original_cwd, ga_verified, ga_status,
                   plot_files, memory_json_exists>>

\* Mutant of chdir_back: the finally clause leaves the working directory alone.
chdir_skipped(remembered, current) == current

\* Line 153: os.chdir(original_cwd), the working directory after it.
chdir_back(remembered, current) == remembered

\* Lines 151-153: finally: os.chdir(original_cwd); then the function returns
\* to line 196, or the exception in flight reaches the handlers of __main__.
GA_Finally ==
    /\ ga_pc = "finally"
    /\ ga_cwd' = chdir_back(original_cwd, ga_cwd)
    /\ ga_pc' = IF ga_exc = "none" THEN "verify" ELSE "main_except"
    /\ UNCHANGED <<ga_step, ga_exc, ga_raised, original_cwd, ga_printed, ga_verified,
                   ga_status, plot_files, memory_json_exists>>

\* Lines 197-198: verify_all_expected_plots(), whose result is not used, the
\* final message, and the end of the script.
GA_Verify ==
    /\ ga_pc = "verify"
    /\ ga_verified' = TRUE
    /\ ga_printed' = ga_printed \o
          <<IF verify_all_expected_plots(plot_files)
            THEN "All expected files generated successfully!"
            ELSE "Missing expected files:",
            "Plot generation completed successfully!">>
    /\ ga_status' = "exit 0"
    /\ ga_pc' = "exited"
    /\ UNCHANGED <<ga_step, ga_exc, ga_raised, ga_cwd, original_cwd, plot_files,
                   memory_json_exists>>

\* Lines 200-205: the two handlers of __main__, both ending in sys.exit(1).
GA_MainExcept ==
    /\ ga_pc = "main_except"
    /\ ga_printed' = Append(ga_printed,
                            IF ga_exc = "KeyboardInterrupt"
                            THEN "Plot generation interrupted by user."
                            ELSE "Fatal error")
    /\ ga_status' = "exit 1"
    /\ ga_pc' = "exited"
    /\ UNCHANGED <<ga_step, ga_exc, ga_raised, ga_cwd, original_cwd, ga_verified,
                   plot_files, memory_json_exists>>

\* ------------------------------ pareto_frontier.plot_pareto_for_datasets

\* Line 29.
representations == <<CSR_BASELINE_KEY, LOGGRAPH_KEY, CGRAPHINDEX_KEY, OUR_DATA_KEY>>

\* The keys of time_data_map as plot_all.py:100-103 builds it, in insertion
\* order.
QueryTypes == <<"neighbors", "2neighbors">>

\* What time_data holds for one dataset: nothing (the dataset is not a key of
\* time_data) or a row of times.
TimeEntries ==
    {[present |-> FALSE, row |-> <<>>]}
    \cup {[present |-> TRUE, row |-> r] : r \in Rows({CSR_BASELINE_KEY, OUR_DATA_KEY})}

\* A float that is a whole number of 2^-20 MB, as that whole number: the x
\* coordinates to_MB produces, in the integer form the comparisons of
\* pareto_frontier are modelled on.
mb_units(x) == x.n * ((1024 * 1024) \div x.d)

\* Lines 47-59: points_for_pareto collected over the representations from
\* position k on.
RECURSIVE collect_points(_, _, _, _)
collect_points(space_row, time_entry, k, points_for_pareto) ==
    IF k > Len(representations) THEN points_for_pareto
    ELSE LET rep == representations[k]
         IN IF /\ rep \in DOMAIN space_row
               /\ time_entry.present
               /\ rep \in DOMAIN time_entry.row
            THEN collect_points(space_row, time_entry, k + 1,
                    Append(points_for_pareto,
                           <<mb_units(to_MB(space_row[rep])), time_entry.row[rep]>>))
            ELSE collect_points(space_row, time_entry, k + 1, points_for_pareto)

\* Mutant of frontier_has_line: a frontier of one point is drawn too.
frontier_not_empty(frontier) == Len(frontier) > 0

\* Line 64: len(frontier) > 1
frontier_has_line(frontier) == Len(frontier) > 1

\* Lines 62-67: the frontier computed for the collected points, if any, and
\* the polyline drawn through it after frontier.sort(), if any.
frontier_line(points_for_pareto) ==
    IF Len(points_for_pareto) > 1
    THEN LET frontier == pareto_frontier(points_for_pareto)
         IN [computed |-> TRUE,
             frontier |-> frontier,
             line |-> IF frontier_has_line(frontier)
                      THEN sorted_points(frontier) ELSE <<>>]
    ELSE [computed |-> FALSE, frontier |-> <<>>, line |-> <<>>]

NoFigure ==
    [query_type |-> "", dataset |-> "", points_for_pareto |-> <<>>,
     computed |-> FALSE, frontier |-> <<>>, line |-> <<>>]

PL_Idle ==
    /\ space_data = <<>>
    /\ pl_datasets = <<>>
    /\ pl_q = 0
    /\ pl_d = 0
    /\ pl_fig = NoFigure
    /\ pl_saved = <<>>
    /\ pl_pc = "idle"

\* A call plot_pareto_for_datasets(space_data, time_data_map, "."); the keys
\* of space_data come in the order the dict holds them.
PL_Init ==
    /\ space_data \in Tables({CSR_BASELINE_KEY, OUR_DATA_KEY})
    /\ pl_datasets \in KeyOrders(space_data)
    /\ pl_q = 1
    /\ pl_d = 1
    /\ pl_fig = NoFigure
    /\ pl_saved = <<>>
    /\ pl_pc = "loop"

\* Lines 44-95: one iteration of the inner loop, for the query type at pl_q
\* and the dataset at pl_d; what time_data holds for the dataset is read here
\* and nowhere else.
PL_Dataset ==
    /\ pl_pc = "loop"
    /\ pl_q <= Len(QueryTypes)
    /\ \E time_entry \in TimeEntries :
          LET dataset == pl_datasets[pl_d]
              points_for_pareto == collect_points(space_data[dataset], time_entry,
                                                  1, <<>>)
              drawn == frontier_line(points_for_pareto)
          IN /\ pl_fig' = [query_type |-> QueryTypes[pl_q],
                           dataset |-> dataset,
                           points_for_pareto |-> points_for_pareto,
                           computed |-> drawn.computed,
                           frontier |-> drawn.frontier,
                           line |-> drawn.line]
             /\ pl_saved' = Append(pl_saved, <<QueryTypes[pl_q], dataset>>)
    /\ IF pl_d < Len(pl_datasets)
       THEN pl_d' = pl_d + 1 /\ pl_q' = pl_q
       ELSE pl_d' = 1 /\ pl_q' = pl_q + 1
    /\ UNCHANGED <<space_data, pl_datasets, pl_pc>>

\* The outer loop is over: the function returns.
PL_Return ==
    /\ pl_pc = "loop"
    /\ pl_q > Len(QueryTypes)
    /\ pl_pc' = "returned"
    /\ UNCHANGED <<space_data, pl_datasets, pl_q, pl_d, pl_fig, pl_saved>>

\* ----------------------------------- relabelling: techniques_for_plot_final

\* Line 11.
MASTER_TECHNIQUES_ORDER == <<"CSV", "random", "topsort", "BFS", "CM", "DM">>

\* Names a user may write into CHOSEN_TECHNIQUES_TO_PLOT: the known ones and
\* one that MASTER_TECHNIQUES_ORDER does not hold.
ChosenNames == Range(MASTER_TECHNIQUES_ORDER) \cup {"zstd"}

\* The values of CHOSEN_TECHNIQUES_TO_PLOT (lines 28-38): None or a list of
\* names, any name any number of times.
None == [is_none |-> TRUE, list |-> <<>>]
ChosenValues ==
    {None} \cup {[is_none |-> FALSE, list |-> l] : l \in SeqsUpTo(ChosenNames, MaxLen)}

\* Line 49: {tech for tech in CHOSEN_TECHNIQUES_TO_PLOT if tech in MASTER_TECHNIQUES_ORDER}
valid_chosen(chosen) ==
    {chosen[i] : i \in {j \in DOMAIN chosen : chosen[j] \in Range(MASTER_TECHNIQUES_ORDER)}}

\* Mutant of baseline_added: the set is left as the user chose it.
baseline_not_added(selected_techniques_set) == selected_techniques_set

\* Line 52: selected_techniques_set.add(BASELINE_TECHNIQUE_NAME)
baseline_added(selected_techniques_set) ==
    selected_techniques_set \cup {BASELINE_TECHNIQUE_NAME}

\* Lines 44-55.
techniques_for_plot(chosen) ==
    IF chosen.is_none
    THEN MASTER_TECHNIQUES_ORDER
    ELSE SelectInOrder(MASTER_TECHNIQUES_ORDER, baseline_added(valid_chosen(chosen.list)))

TS_Idle ==
    /\ CHOSEN_TECHNIQUES_TO_PLOT = None
    /\ techniques_for_plot_final = <<>>
    /\ ts_pc = "idle"

\* relabelling.py is imported with some value written at line 35.
TS_Init ==
    /\ CHOSEN_TECHNIQUES_TO_PLOT \in ChosenValues
    /\ techniques_for_plot_final = <<>>
    /\ ts_pc = "configured"

\* Lines 44-55 run.
TS_Select ==
    /\ ts_pc = "configured"
    /\ techniques_for_plot_final' = techniques_for_plot(CHOSEN_TECHNIQUES_TO_PLOT)
    /\ ts_pc' = "selected"
    /\ UNCHANGED CHOSEN_TECHNIQUES_TO_PLOT

\* ------------------------------------- pareto_frontier called again and again

\* The points the repeated calls are made on, and the lists other calls are
\* made on in between.
RepeatPoints == {<<0, 1>>, <<1, 0>>, <<1, inf>>}
RepeatLists == SeqsUpTo(RepeatPoints, MaxLen)
OtherLists == {<<<<0, 0>>>>, <<<<1, 1>>, <<0, 2>>>>}

\* Mutant of fresh_locals: the accumulator and the running minimum are kept
\* from the call that returned last (module-level state).
kept_locals(left) == left

\* Lines 17-18: pareto_front = [] and min_y = float('inf') are locals created
\* by every call, whatever the call before left behind.
fresh_locals(left) == [pareto_front |-> <<>>, min_y |-> inf]

\* Line 16: sorted() builds a new list; this is the argument after it.
argument_after_sorted(pts) == pts

\* A call frame that was never entered.
NoFrame ==
    [pc |-> "idle", calls |-> 0, sorted_points |-> <<>>, i |-> 0,
     pareto_front |-> <<>>, min_y |-> inf]

\* Lines 16-18: the frame of a call on pts.
entered(frame, pts, left) ==
    LET locals == fresh_locals(left)
    IN [pc |-> "loop", calls |-> frame.calls + 1,
        sorted_points |-> sorted_points(pts), i |-> 1,
        pareto_front |-> locals.pareto_front, min_y |-> locals.min_y]

\* Lines 19-22: one iteration of the loop.
iterated(frame) ==
    LET p == frame.sorted_points[frame.i]
    IN IF below_min_y(p[2], frame.min_y)
       THEN [frame EXCEPT !.pareto_front = Append(@, p), !.min_y = p[2], !.i = @ + 1]
       ELSE [frame EXCEPT !.i = @ + 1]

RP_Idle ==
    /\ rp_given = <<>>
    /\ rp_points = <<>>
    /\ rp_frame = NoFrame
    /\ rp_other = NoFrame
    /\ rp_left = [pareto_front |-> <<>>, min_y |-> inf]
    /\ rp_first = <<>>
    /\ rp_last = <<>>
    /\ rp_pc = "idle"

\* A caller holds a list of points; nothing was called yet.
RP_Init ==
    /\ rp_given \in RepeatLists
    /\ rp_points = rp_given
    /\ rp_frame = NoFrame
    /\ rp_other = NoFrame
    /\ rp_left = [pareto_front |-> <<>>, min_y |-> inf]
    /\ rp_first = <<>>
    /\ rp_last = <<>>
    /\ rp_pc = "running"

\* pareto_frontier(points) is called on the caller's list.
RP_Enter ==
    /\ rp_pc = "running"
    /\ rp_frame.pc \in {"idle", "returned"}
    /\ rp_frame.calls + rp_other.calls < MaxCalls
    /\ rp_frame' = entered(rp_frame, rp_points, rp_left)
    /\ rp_points' = argument_after_sorted(rp_points)
    /\ UNCHANGED <<rp_given, rp_other, rp_left, rp_first, rp_last, rp_pc>>

\* One iteration of that call's loop.
RP_Iterate ==
    /\ rp_frame.pc = "loop"
    /\ rp_frame.i <= Len(rp_frame.sorted_points)
    /\ rp_frame' = iterated(rp_frame)
    /\ UNCHANGED <<rp_given, rp_points, rp_other, rp_left, rp_first, rp_last, rp_pc>>

\* Line 23: that call returns pareto_front.
RP_Return ==
    /\ rp_frame.pc = "loop"
    /\ rp_frame.i > Len(rp_frame.sorted_points)
    /\ rp_frame' = [rp_frame EXCEPT !.pc = "returned"]
    /\ rp_last' = <<rp_frame.pareto_front>>
    /\ rp_first' = IF rp_first = <<>> THEN <<rp_frame.pareto_front>> ELSE rp_first
    /\ rp_left' = [pareto_front |-> rp_frame.pareto_front, min_y |-> rp_frame.min_y]
    /\ UNCHANGED <<rp_given, rp_points, rp_other, rp_pc>>

\* pareto_frontier is called on some other list, before, between or during
\* the calls on the caller's list.
RP_OtherEnter ==
    /\ rp_pc = "running"
    /\ rp_other.pc \in {"idle", "returned"}
    /\ rp_frame.calls + rp_other.calls < MaxCalls
    /\ \E pts \in OtherLists : rp_other' = entered(rp_other, pts, rp_left)
    /\ UNCHANGED <<rp_given, rp_points, rp_frame, rp_left, rp_first, rp_last, rp_pc>>

RP_OtherIterate ==
    /\ rp_other.pc = "loop"
    /\ rp_other.i <= Len(rp_other.sorted_points)
    /\ rp_other' = iterated(rp_other)
    /\ UNCHANGED <<rp_given, rp_points, rp_frame, rp_left, rp_first, rp_last, rp_pc>>

RP_OtherReturn ==
    /\ rp_other.pc = "loop"
    /\ rp_other.i > Len(rp_other.sorted_points)
    /\ rp_other' = [rp_other EXCEPT !.pc = "returned"]
    /\ rp_left' = [pareto_front |-> rp_other.pareto_front, min_y |-> rp_other.min_y]
    /\ UNCHANGED <<rp_given, rp_points, rp_frame, rp_first, rp_last, rp_pc>>

\* ----------------------------------- memory.plot_memory_breakdown_stacked

\* Component names of the JSON files the breakdown is drawn for: two that
\* group_components knows and one it does not.
MemoryComponents == {"nodeAdjLists", "varSize", "stringPool"}

\* memory_data[dataset]: a dict with or without a 'detailed' entry.
MemoryEntries ==
    {[has_detailed |-> FALSE, detailed |-> <<>>]}
    \cup {[has_detailed |-> TRUE, detailed |-> d] :
             d \in UNION {[S -> 0 .. MaxVal] :
                          S \in {T \in SUBSET MemoryComponents : Cardinality(T) <= MaxKeys}}}

MemoryData == UNION {[D -> MemoryEntries] : D \in SUBSET Range(DatasetNames)}

\* Lines 109-110: del grouped['_other_details'] when it is there.
without_other_details(g) ==
    [k \in DOMAIN g \ {"_other_details"} |-> g[k]]

\* Lines 105-112: grouped_data after the first loop.
grouped_of(data) ==
    [dataset \in {ds \in DOMAIN data : data[ds].has_detailed} |->
        without_other_details(group_components(data[dataset].detailed))]

\* Line 112: all_components after the first loop (lines 121-122 only order it).
components_of(groups) == UNION {DOMAIN groups[dataset] : dataset \in DOMAIN groups}

\* sum(grouped.values())
RECURSIVE dict_sum(_)
dict_sum(g) ==
    IF DOMAIN g = {} THEN 0
    ELSE LET key == CHOOSE k \in DOMAIN g : TRUE
         IN g[key] + dict_sum([k \in DOMAIN g \ {key} |-> g[k]])

\* Mutant of percentage: the fraction is not converted to a percentage.
percentage_unscaled(size, total_size) ==
    PyDiv(Frac(size, 1), Frac(total_size, 1)).val

\* Line 158: (size / total_size) * 100
percentage(size, total_size) ==
    PyMul(PyDiv(Frac(size, 1), Frac(total_size, 1)).val, Frac(100, 1))

\* Lines 155-158: the proportions of one dataset.
proportions_of(g, components, total_size) ==
    [component \in components |->
        percentage(IF component \in DOMAIN g THEN g[component] ELSE 0, total_size)]

\* Line 99: datasets = sorted(list(memory_data.keys()))
sorted_datasets(data) ==
    IF DOMAIN data = {} THEN <<>>
    ELSE sorted_names(CHOOSE keys \in Orderings(DOMAIN data) : TRUE)

MB_Idle ==
    /\ memory_data = <<>>
    /\ grouped_data = <<>>
    /\ all_components = {}
    /\ total_sizes = <<>>
    /\ proportions_data = <<>>
    /\ mb_i = 0
    /\ mb_printed = <<>>
    /\ mb_pc = "idle"

\* A call plot_memory_breakdown_stacked(memory_data, output_dir).
MB_Init ==
    /\ memory_data \in MemoryData
    /\ grouped_data = <<>>
    /\ all_components = {}
    /\ total_sizes = <<>>
    /\ proportions_data = <<>>
    /\ mb_i = 0
    /\ mb_printed = <<>>
    /\ mb_pc = "called"

\* Lines 99-122: the first loop.
MB_Group ==
    /\ mb_pc = "called"
    /\ grouped_data' = grouped_of(memory_data)
    /\ all_components' = components_of(grouped_of(memory_data))
    /\ mb_i' = 1
    /\ mb_pc' = "proportions"
    /\ UNCHANGED <<memory_data, total_sizes, proportions_data, mb_printed>>

\* Lines 145-160: one iteration of the second loop.
MB_Dataset ==
    /\ mb_pc = "proportions"
    /\ mb_i <= Len(sorted_datasets(memory_data))
    /\ LET dataset == sorted_datasets(memory_data)[mb_i]
       IN IF dataset \notin DOMAIN grouped_data
          THEN UNCHANGED <<total_sizes, proportions_data>>
          ELSE LET total_size == dict_sum(grouped_data[dataset])
               IN /\ total_sizes' = dict_set(total_sizes, dataset, total_size)
                  /\ IF total_size = 0
                     THEN UNCHANGED proportions_data
                     ELSE proportions_data' =
                             dict_set(proportions_data, dataset,
                                      proportions_of(grouped_data[dataset],
                                                     all_components, total_size))
    /\ mb_i' = mb_i + 1
    /\ UNCHANGED <<memory_data, grouped_data, all_components, mb_printed, mb_pc>>

\* Lines 162-167: nothing to plot, or the chart of proportions_data.
MB_AfterLoop ==
    /\ mb_pc = "proportions"
    /\ mb_i > Len(sorted_datasets(memory_data))
    /\ IF DOMAIN proportions_data = {}
       THEN /\ mb_printed' = Append(mb_printed, "No valid data found for plotting.")
            /\ mb_pc' = "returned"
       ELSE /\ mb_pc' = "plot"
            /\ UNCHANGED mb_printed
    /\ UNCHANGED <<memory_data, grouped_data, all_components, total_sizes,
                   proportions_data, mb_i>>

\* --------------------------- pareto_frontier on a list and a rearrangement

\* Points with ties in x, ties in y and an infinite y.
PermutePoints == {<<0, 1>>, <<1, 0>>, <<1, 1>>, <<0, inf>>}

\* pts with its elements in the order sigma gives the positions.
rearranged(pts, sigma) == [i \in DOMAIN pts |-> pts[sigma[i]]]

\* The lists that hold the elements of pts, each as often as pts does.
Rearrangements(pts) == {rearranged(pts, sigma) : sigma \in Orderings(DOMAIN pts)}

PM_Idle ==
    /\ pm_points = <<>>
    /\ pm_permuted = <<>>
    /\ pm_front = <<>>
    /\ pm_front_permuted = <<>>
    /\ pm_pc = [call \in {"given", "permuted"} |-> "idle"]

\* A list and one of its rearrangements, each to be passed to
\* pareto_frontier.
PM_Init ==
    /\ pm_points \in SeqsUpTo(PermutePoints, MaxLen)
    /\ pm_permuted \in Rearrangements(pm_points)
    /\ pm_front = <<>>
    /\ pm_front_permuted = <<>>
    /\ pm_pc = [call \in {"given", "permuted"} |-> "called"]

\* pareto_frontier(P)
PM_Call ==
    /\ pm_pc["given"] = "called"
    /\ pm_front' = pareto_frontier(pm_points)
    /\ pm_pc' = [pm_pc EXCEPT !["given"] = "returned"]
    /\ UNCHANGED <<pm_points, pm_permuted, pm_front_permuted>>

\* pareto_frontier(P')
PM_CallPermuted ==
    /\ pm_pc["permuted"] = "called"
    /\ pm_front_permuted' = pareto_frontier(pm_permuted)
    /\ pm_pc' = [pm_pc EXCEPT !["permuted"] = "returned"]
    /\ UNCHANGED <<pm_points, pm_permuted, pm_front>>

\* ------------------------------------------------------- specifications

PF_Idle ==
    /\ points = <<>>
    /\ pareto_front = <<>>
    /\ pf_pc = "idle"

PF_Init ==
    /\ points \in PointLists
    /\ pareto_front = <<>>
    /\ pf_pc = "called"

\* One call of pareto_frontier(points).
PF_Call ==
    /\ pf_pc = "called"
    /\ pareto_front' = pareto_frontier(points)
    /\ pf_pc' = "returned"
    /\ UNCHANGED points

vars == <<pf_vars, sp_vars, tm_vars, rl_vars, cl_vars, fa_vars, gc_vars, ga_vars, pl_vars, ts_vars, rp_vars, mb_vars, pm_vars>>

\* What the steps of each part leave alone, and the rest of the state when
\* only that part runs.
pf_others == <<sp_vars, tm_vars, rl_vars, cl_vars, fa_vars, gc_vars, ga_vars
               , pl_vars, ts_vars, rp_vars, mb_vars, pm_vars>>
sp_others == <<pf_vars, tm_vars, rl_vars, cl_vars, fa_vars, gc_vars, ga_vars
               , pl_vars, ts_vars, rp_vars, mb_vars, pm_vars>>
tm_others == <<pf_vars, sp_vars, rl_vars, cl_vars, fa_vars, gc_vars, ga_vars
               , pl_vars, ts_vars, rp_vars, mb_vars, pm_vars>>
rl_others == <<pf_vars, sp_vars, tm_vars, cl_vars, fa_vars, gc_vars, ga_vars
               , pl_vars, ts_vars, rp_vars, mb_vars, pm_vars>>
cl_others == <<pf_vars, sp_vars, tm_vars, rl_vars, fa_vars, gc_vars, ga_vars
               , pl_vars, ts_vars, rp_vars, mb_vars, pm_vars>>
fa_others == <<pf_vars, sp_vars, tm_vars, rl_vars, cl_vars, gc_vars, ga_vars
               , pl_vars, ts_vars, rp_vars, mb_vars, pm_vars>>
gc_others == <<pf_vars, sp_vars, tm_vars, rl_vars, cl_vars, fa_vars, ga_vars
               , pl_vars, ts_vars, rp_vars, mb_vars, pm_vars>>
ga_others == <<pf_vars, sp_vars, tm_vars, rl_vars, cl_vars, fa_vars, gc_vars
               , pl_vars, ts_vars, rp_vars, mb_vars, pm_vars>>
pl_others == <<pf_vars, sp_vars, tm_vars, rl_vars, cl_vars, fa_vars, gc_vars
               , ga_vars, ts_vars, rp_vars, mb_vars, pm_vars>>
ts_others == <<pf_vars, sp_vars, tm_vars, rl_vars, cl_vars, fa_vars, gc_vars
               , ga_vars, pl_vars, rp_vars, mb_vars, pm_vars>>
rp_others == <<pf_vars, sp_vars, tm_vars, rl_vars, cl_vars, fa_vars, gc_vars
               , ga_vars, pl_vars, ts_vars, mb_vars, pm_vars>>
mb_others == <<pf_vars, sp_vars, tm_vars, rl_vars, cl_vars, fa_vars, gc_vars
               , ga_vars, pl_vars, ts_vars, rp_vars, pm_vars>>
pm_others == <<pf_vars, sp_vars, tm_vars, rl_vars, cl_vars, fa_vars, gc_vars
               , ga_vars, pl_vars, ts_vars, rp_vars, mb_vars>>

PF_OthersIdle ==
    /\ SP_Idle
    /\ TM_Idle
    /\ RL_Idle
    /\ CL_Idle
    /\ FA_Idle
    /\ GC_Idle
    /\ GA_Idle
    /\ PL_Idle
    /\ TS_Idle
    /\ RP_Idle
    /\ MB_Idle
    /\ PM_Idle

SP_OthersIdle ==
    /\ PF_Idle
    /\ TM_Idle
    /\ RL_Idle
    /\ CL_Idle
    /\ FA_Idle
    /\ GC_Idle
    /\ GA_Idle
    /\ PL_Idle
    /\ TS_Idle
    /\ RP_Idle
    /\ MB_Idle
    /\ PM_Idle

TM_OthersIdle ==
    /\ PF_Idle
    /\ SP_Idle
    /\ RL_Idle
    /\ CL_Idle
    /\ FA_Idle
    /\ GC_Idle
    /\ GA_Idle
    /\ PL_Idle
    /\ TS_Idle
    /\ RP_Idle
    /\ MB_Idle
    /\ PM_Idle

RL_OthersIdle ==
    /\ PF_Idle
    /\ SP_Idle
    /\ TM_Idle
    /\ CL_Idle
    /\ FA_Idle
    /\ GC_Idle
    /\ GA_Idle
    /\ PL_Idle
    /\ TS_Idle
    /\ RP_Idle
    /\ MB_Idle
    /\ PM_Idle

CL_OthersIdle ==
    /\ PF_Idle
    /\ SP_Idle
    /\ TM_Idle
    /\ RL_Idle
    /\ FA_Idle
    /\ GC_Idle
    /\ GA_Idle
    /\ PL_Idle
    /\ TS_Idle
    /\ RP_Idle
    /\ MB_Idle
    /\ PM_Idle

FA_OthersIdle ==
    /\ PF_Idle
    /\ SP_Idle
    /\ TM_Idle
    /\ RL_Idle
    /\ CL_Idle
    /\ GC_Idle
    /\ GA_Idle
    /\ PL_Idle
    /\ TS_Idle
    /\ RP_Idle
    /\ MB_Idle
    /\ PM_Idle

GC_OthersIdle ==
    /\ PF_Idle
    /\ SP_Idle
    /\ TM_Idle
    /\ RL_Idle
    /\ CL_Idle
    /\ FA_Idle
    /\ GA_Idle
    /\ PL_Idle
    /\ TS_Idle
    /\ RP_Idle
    /\ MB_Idle
    /\ PM_Idle

GA_OthersIdle ==
    /\ PF_Idle
    /\ SP_Idle
    /\ TM_Idle
    /\ RL_Idle
    /\ CL_Idle
    /\ FA_Idle
    /\ GC_Idle
    /\ PL_Idle
    /\ TS_Idle
    /\ RP_Idle
    /\ MB_Idle
    /\ PM_Idle

PL_OthersIdle ==
    /\ PF_Idle
    /\ SP_Idle
    /\ TM_Idle
    /\ RL_Idle
    /\ CL_Idle
    /\ FA_Idle
    /\ GC_Idle
    /\ GA_Idle
    /\ TS_Idle
    /\ RP_Idle
    /\ MB_Idle
    /\ PM_Idle

TS_OthersIdle ==
    /\ PF_Idle
    /\ SP_Idle
    /\ TM_Idle
    /\ RL_Idle
    /\ CL_Idle
    /\ FA_Idle
    /\ GC_Idle
    /\ GA_Idle
    /\ PL_Idle
    /\ RP_Idle
    /\ MB_Idle
    /\ PM_Idle

RP_OthersIdle ==
    /\ PF_Idle
    /\ SP_Idle
    /\ TM_Idle
    /\ RL_Idle
    /\ CL_Idle
    /\ FA_Idle
    /\ GC_Idle
    /\ GA_Idle
    /\ PL_Idle
    /\ TS_Idle
    /\ MB_Idle
    /\ PM_Idle

MB_OthersIdle ==
    /\ PF_Idle
    /\ SP_Idle
    /\ TM_Idle
    /\ RL_Idle
    /\ CL_Idle
    /\ FA_Idle
    /\ GC_Idle
    /\ GA_Idle
    /\ PL_Idle
    /\ TS_Idle
    /\ RP_Idle
    /\ PM_Idle

PM_OthersIdle ==
    /\ PF_Idle
    /\ SP_Idle
    /\ TM_Idle
    /\ RL_Idle
    /\ CL_Idle
    /\ FA_Idle
    /\ GC_Idle
    /\ GA_Idle
    /\ PL_Idle
    /\ TS_Idle
    /\ RP_Idle
    /\ MB_Idle

\* Calls of pareto_frontier.
Init == PF_Init /\ PF_OthersIdle

Next == PF_Call /\ UNCHANGED pf_others

Spec == Init /\ [][Next]_vars

\* One call of one of the three normalizing plot functions.
InitNorm ==
    \/ SP_Init /\ SP_OthersIdle
    \/ TM_Init /\ TM_OthersIdle
    \/ RL_Init /\ RL_OthersIdle

NextNorm ==
    \/ SP_Main /\ UNCHANGED sp_others
    \/ SP_Copy /\ UNCHANGED sp_others
    \/ SP_Dataset /\ UNCHANGED sp_others
    \/ SP_AfterLoop /\ UNCHANGED sp_others
    \/ TM_Filter /\ UNCHANGED tm_others
    \/ TM_Technique /\ UNCHANGED tm_others
    \/ TM_Finish /\ UNCHANGED tm_others
    \/ RL_Dataset /\ UNCHANGED rl_others
    \/ RL_AfterLoop /\ UNCHANGED rl_others

SpecNorm == InitNorm /\ [][NextNorm]_vars

\* One call of one of the three normalizing plot functions on a small table,
\* with the datasets in every order a caller or a dict can give them.
InitOrder ==
    \/ SP_InitOrder /\ SP_OthersIdle
    \/ TM_InitOrder /\ TM_OthersIdle
    \/ RL_InitOrder /\ RL_OthersIdle

SpecOrder == InitOrder /\ [][NextNorm]_vars

\* Successive calls of plot_normalized_with_annotation on one table.
InitCalls == CL_Init /\ CL_OthersIdle

NextCalls == CL_Call /\ UNCHANGED cl_others

SpecCalls == InitCalls /\ [][NextCalls]_vars

\* Calls of format_annotation_with_ratio.
InitFormat == FA_Init /\ FA_OthersIdle

NextFormat == FA_Call /\ UNCHANGED fa_others

SpecFormat == InitFormat /\ [][NextFormat]_vars

\* Calls of group_components.
InitGroup == GC_Init /\ GC_OthersIdle

NextGroup == GC_Call /\ UNCHANGED gc_others

SpecGroup == InitGroup /\ [][NextGroup]_vars

\* One run of plot_all.py as a script.
InitAll == GA_Init /\ GA_OthersIdle

NextAll ==
    \/ GA_Start /\ UNCHANGED ga_others
    \/ GA_Step /\ UNCHANGED ga_others
    \/ GA_Success /\ UNCHANGED ga_others
    \/ GA_Except /\ UNCHANGED ga_others
    \/ GA_Finally /\ UNCHANGED ga_others
    \/ GA_Verify /\ UNCHANGED ga_others
    \/ GA_MainExcept /\ UNCHANGED ga_others

SpecAll == InitAll /\ [][NextAll]_vars

\* One call of plot_pareto_for_datasets.
InitPlots == PL_Init /\ PL_OthersIdle

NextPlots ==
    \/ PL_Dataset /\ UNCHANGED pl_others
    \/ PL_Return /\ UNCHANGED pl_others

SpecPlots == InitPlots /\ [][NextPlots]_vars

\* relabelling.py imported with some configuration.
InitSelect == TS_Init /\ TS_OthersIdle

NextSelect == TS_Select /\ UNCHANGED ts_others

SpecSelect == InitSelect /\ [][NextSelect]_vars

\* Calls of pareto_frontier on one list, with calls on other lists before,
\* between and during them.
InitRepeat == RP_Init /\ RP_OthersIdle

NextRepeat ==
    \/ RP_Enter /\ UNCHANGED rp_others
    \/ RP_Iterate /\ UNCHANGED rp_others
    \/ RP_Return /\ UNCHANGED rp_others
    \/ RP_OtherEnter /\ UNCHANGED rp_others
    \/ RP_OtherIterate /\ UNCHANGED rp_others
    \/ RP_OtherReturn /\ UNCHANGED rp_others

SpecRepeat == InitRepeat /\ [][NextRepeat]_vars

\* One call of plot_memory_breakdown_stacked.
InitBreakdown == MB_Init /\ MB_OthersIdle

NextBreakdown ==
    \/ MB_Group /\ UNCHANGED mb_others
    \/ MB_Dataset /\ UNCHANGED mb_others
    \/ MB_AfterLoop /\ UNCHANGED mb_others

SpecBreakdown == InitBreakdown /\ [][NextBreakdown]_vars

\* pareto_frontier called on a list and on a rearrangement of it.
InitPermute == PM_Init /\ PM_OthersIdle

NextPermute ==
    \/ PM_Call /\ UNCHANGED pm_others
    \/ PM_CallPermuted /\ UNCHANGED pm_others

SpecPermute == InitPermute /\ [][NextPermute]_vars

\* ====================================================================
\* Properties of pareto_frontier
\* ====================================================================

Returned == pf_pc = "returned"

\* p occurs in the sequence s.
Occurs(p, s) == \E i \in DOMAIN s : s[i] = p

\* Number of positions of s holding p.
Count(p, s) == Cardinality({i \in DOMAIN s : s[i] = p})

\* q dominates p: no worse on both axes, strictly better on one.
Dominates(q, p) ==
    /\ float_le(q[1], p[1])
    /\ float_le(q[2], p[2])
    /\ (float_lt(q[1], p[1]) \/ float_lt(q[2], p[2]))

\* No point of the input with a different value is <= p on both axes.
Undominated(p) ==
    ~ \E j \in DOMAIN points :
        /\ points[j] # p
        /\ float_le(points[j][1], p[1])
        /\ float_le(points[j][2], p[2])

\* C1: every returned point is an element of the input and no point of the
\* input dominates it.
C1_ReturnedPointsUndominated ==
    Returned =>
        \A i \in DOMAIN pareto_front :
            /\ Occurs(pareto_front[i], points)
            /\ ~ \E j \in DOMAIN points : Dominates(points[j], pareto_front[i])

\* C1 witness: a call that returned two points and dropped a dominated one.
C1_Witness ==
    /\ Returned
    /\ Len(pareto_front) = 2
    /\ \E j \in DOMAIN points :
          /\ ~ Occurs(points[j], pareto_front)
          /\ \E k \in DOMAIN points : Dominates(points[k], points[j])

C3_PairwiseNonDominated ==
    Returned =>
        \A i, j \in DOMAIN pareto_front :
            i # j => ~ Dominates(pareto_front[i], pareto_front[j])

\* C3 witness: two returned points out of an input holding a y tie at
\* different x.
C3_Witness ==
    /\ Returned
    /\ Len(pareto_front) >= 2
    /\ \E j, k \in DOMAIN points :
          j # k /\ points[j][2] = points[k][2] /\ points[j][1] # points[k][1]

\* C4: the output is sorted ascending by x and its y values strictly decrease.
C4_SortedXDecreasingY ==
    Returned =>
        \A i \in 1 .. Len(pareto_front) - 1 :
            /\ float_le(pareto_front[i][1], pareto_front[i + 1][1])
            /\ float_lt(pareto_front[i + 1][2], pareto_front[i][2])

\* C4 witness: a three-point frontier returned from an input given in
\* descending x order.
C4_Witness ==
    /\ Returned
    /\ Len(pareto_front) = 3
    /\ Len(points) = 3
    /\ float_lt(points[3][1], points[1][1])

\* C5: the empty input returns the empty sequence; a single point with
\* finite coordinates returns exactly that point.
C5_EmptyAndSingle ==
    Returned =>
        /\ (points = <<>> => pareto_front = <<>>)
        /\ (Len(points) = 1 /\ points[1][2] # inf => pareto_front = points)

\* C5 witness: a single finite point returned as itself.
C5_Witness ==
    /\ Returned
    /\ Len(points) = 1
    /\ points[1][2] # inf
    /\ pareto_front = <<points[1]>>

\* C6: the documented example, in any input order, returns
\* [(1,10), (2,5), (4,1)]; (3,5) only ties the best y and is excluded.
C6_Example ==
    (Returned /\ points \in Orderings(ExamplePoints))
        => pareto_front = ExampleFrontier

\* C6 witness: the example given in descending x order.
C6_Witness ==
    /\ Returned
    /\ points = <<<<4, 1>>, <<3, 5>>, <<2, 5>>, <<1, 10>>>>
    /\ pareto_front = ExampleFrontier
    /\ ~ Occurs(<<3, 5>>, pareto_front)

\* ====================================================================
\* Properties of the normalization
\* ====================================================================

One == Frac(1, 1)

\* The key is present with a non-zero value in every dataset of the table.
BaselineNonZeroEverywhere(table, key) ==
    \A ds \in DOMAIN table : key \in DOMAIN table[ds] /\ table[ds][key] # 0

\* C7: when the baseline key is present and non-zero in every dataset, the
\* ratio computed for the baseline series itself is exactly 1.0 in every
\* dataset: CSR in plot_normalized_with_annotation (one row per dataset, no
\* exception), the baseline item in plot_data_normalized_with_annotation
\* (every row computed, and one row per dataset once the loop is through).
C7_BaselineRatioIsOne ==
    /\ (sp_pc \in {"loop", "plot", "returned", "raised"}
           /\ BaselineNonZeroEverywhere(data_to_plot, CSR_BASELINE_KEY))
        => /\ sp_exc = "none"
           /\ sp_pc # "returned"
           /\ (sp_pc = "plot" => Len(sp_normalized_sizes) = Len(datasets_list))
           /\ \A i \in DOMAIN sp_normalized_sizes :
                 \A k \in DOMAIN current_formats(include_our_data) :
                     current_formats(include_our_data)[k] = CSR_BASELINE_KEY
                         => sp_normalized_sizes[i][k] = One
    /\ (rl_pc \in {"loop", "plot", "returned", "raised"}
           /\ BaselineNonZeroEverywhere(data_dict, baseline_item_name))
        => /\ (rl_pc = "plot" => Len(rl_normalized_values) = Len(datasets_order))
           /\ \A i \in DOMAIN rl_normalized_values :
                 \A k \in DOMAIN items_order :
                     items_order[k] = baseline_item_name
                         => rl_normalized_values[i][k] = One

\* C7 witness: plot_normalized_with_annotation reached the plotting stage with
\* a non-zero CSR in both datasets, a CSR ratio of 1.0 in both rows and a
\* LogGraph ratio that is not 1.0.
C7_Witness ==
    /\ sp_pc = "plot"
    /\ BaselineNonZeroEverywhere(data_to_plot, CSR_BASELINE_KEY)
    /\ Len(sp_normalized_sizes) = 2
    /\ sp_normalized_sizes[1][1] = One
    /\ sp_normalized_sizes[2][1] = One
    /\ sp_normalized_sizes[1][2] # One

\* C8 (as stated): in plot_normalized_with_annotation and
\* plot_time_comparison_normalized a dataset whose baseline value is zero gets
\* not-a-number ratios, no exception is raised, and the other datasets' ratios
\* are still computed.
C8_ZeroBaselineGivesNaN ==
    /\ sp_pc # "idle" =>
          /\ sp_exc = "none"
          /\ \A i \in DOMAIN sp_normalized_sizes :
                (Len(sp_normalized_sizes) = Len(datasets_list)
                    /\ data_to_plot[datasets_list[i]][CSR_BASELINE_KEY] = 0)
                    => \A k \in DOMAIN sp_normalized_sizes[i] :
                           sp_normalized_sizes[i][k].nan
    /\ tm_pc = "returned" =>
          \A b \in DOMAIN tm_bars : \A j \in DOMAIN DatasetNames :
              LET ds_values == tm_data[DatasetNames[j]]
              IN (/\ CSR_BASELINE_KEY \in DOMAIN ds_values
                  /\ ds_values[CSR_BASELINE_KEY] = 0
                  /\ tm_bars[b].technique \in DOMAIN ds_values)
                     => tm_bars[b].normalized[j].nan

\* The ratios and MB values the relabelling normalization is to record for a
\* dataset, from that dataset's own values alone.
ExpectedRatio(ds_values, item, baseline) ==
    IF ds_values[baseline] = 0 THEN NaN
    ELSE Frac(ds_values[item], ds_values[baseline])

ExpectedMB(ds_values, item) == Frac(ds_values[item], 1048576)

\* C9: in plot_data_normalized_with_annotation a dataset whose baseline value
\* is 0 has every ratio NaN, no exception is raised for it (when no item is
\* missing the loop completes with one row per dataset), and the ratios and MB
\* values of every dataset are those computed from the dataset's own values,
\* whatever the baselines of the other datasets are.
C9_ZeroBaselineIsLocal ==
    rl_pc # "idle" =>
        /\ rl_exc \in {"none", "ValueError"}
        /\ (/\ \A ds \in DOMAIN data_dict :
                  /\ baseline_item_name \in DOMAIN data_dict[ds]
                  /\ \A k \in DOMAIN items_order : items_order[k] \in DOMAIN data_dict[ds]
            /\ rl_pc # "loop")
              => /\ rl_exc = "none"
                 /\ Len(rl_normalized_values) = Len(datasets_order)
        /\ Len(rl_absolute_sizes_MB) = Len(rl_normalized_values)
        /\ \A i \in DOMAIN rl_normalized_values :
              LET ds_values == data_dict[datasets_order[i]]
              IN \A k \in DOMAIN items_order :
                    /\ rl_normalized_values[i][k]
                          = ExpectedRatio(ds_values, items_order[k], baseline_item_name)
                    /\ rl_absolute_sizes_MB[i][k] = ExpectedMB(ds_values, items_order[k])

\* C9 witness: the first dataset has a zero baseline and NaN ratios, the second
\* a non-zero baseline and its own ratios, and the figure stage was reached.
C9_Witness ==
    /\ rl_pc = "plot"
    /\ Len(items_order) >= 2
    /\ data_dict[datasets_order[1]][baseline_item_name] = 0
    /\ data_dict[datasets_order[2]][baseline_item_name] # 0
    /\ \A k \in DOMAIN items_order : rl_normalized_values[1][k].nan
    /\ \A k \in DOMAIN items_order : ~ rl_normalized_values[2][k].nan
    /\ rl_printed # <<>>

\* Dataset number i of datasets_order lacks the baseline item or an item of
\* items_order.
LacksItem(i) ==
    LET ds_values == data_dict[datasets_order[i]]
    IN \/ baseline_item_name \notin DOMAIN ds_values
       \/ \E k \in DOMAIN items_order : items_order[k] \notin DOMAIN ds_values

\* C10: if some dataset of datasets_order lacks the baseline item or an item of
\* items_order, the loop never gets past the first such dataset, the only
\* exception raised is ValueError, and no figure is created: the function
\* neither reaches the plotting stage nor returns.
C10_MissingItemRaisesValueError ==
    (rl_pc # "idle" /\ \E i \in DOMAIN datasets_order : LacksItem(i)) =>
        /\ rl_pc \in {"loop", "raised"}
        /\ rl_fig = FALSE
        /\ rl_exc \in {"none", "ValueError"}
        /\ (rl_pc = "raised" <=> rl_exc = "ValueError")
        /\ \E i \in DOMAIN datasets_order :
              /\ LacksItem(i)
              /\ rl_i <= i
              /\ (rl_pc = "raised" => rl_i = i)

\* C10 witness: the first dataset was normalized, the second has the baseline
\* but lacks an item, and ValueError was raised with no figure created.
C10_Witness ==
    /\ rl_pc = "raised"
    /\ rl_exc = "ValueError"
    /\ rl_fig = FALSE
    /\ Len(rl_normalized_values) = 1
    /\ baseline_item_name \in DOMAIN data_dict[datasets_order[2]]
    /\ LacksItem(2)

\* ====================================================================
\* Handling of missing data in the graph-representation plots

SP_InLoopOrAfter == sp_pc \in {"loop", "plot", "returned", "raised"}

\* The row of zeros the space path would record for a dataset, one entry per
\* requested format.
ZeroRow(include) == [k \in 1 .. Len(current_formats(include)) |-> Frac(0, 1)]

SP_LacksBaseline(j) ==
    CSR_BASELINE_KEY \notin DOMAIN current_data[datasets_list[j]]

SP_Warned(j) ==
    \E m \in DOMAIN sp_printed :
        sp_printed[m] = <<"Warning: CSR data missing. Skipping.", datasets_list[j]>>

SP_RowOf(j) == Cardinality({i \in 1 .. j : ~ SP_LacksBaseline(i)})

\* C12 as stated: in the graph-representation plots, a requested series that
\* is absent from a dataset that has the 'CSR' baseline is recorded as ratio 0
\* and absolute 0 at the series' position, the row of that dataset has one
\* entry per requested series, and nothing stops the other series and datasets
\* from being processed. Space path: every dataset reached by the loop that
\* has the baseline gets its full row and the call raises nothing. Time path:
\* in every group of bars the entry of a dataset with the baseline and without
\* the technique is 0 and 0.
C12_AbsentSeriesZeroFilled ==
    /\ SP_InLoopOrAfter =>
          LET formats == current_formats(include_our_data)
              reached == {j \in DOMAIN datasets_list :
                             j < sp_i \/ (sp_pc = "raised" /\ j = sp_i)}
          IN \A j \in reached :
                LET ds_values == current_data[datasets_list[j]]
                IN CSR_BASELINE_KEY \in DOMAIN ds_values =>
                      /\ sp_exc = "none"
                      /\ SP_RowOf(j) <= Len(sp_normalized_sizes)
                      /\ Len(sp_normalized_sizes[SP_RowOf(j)]) = Len(formats)
                      /\ Len(sp_absolute_sizes_MB[SP_RowOf(j)]) = Len(formats)
                      /\ \A k \in DOMAIN formats :
                            formats[k] \notin DOMAIN ds_values =>
                               /\ sp_normalized_sizes[SP_RowOf(j)][k] = Frac(0, 1)
                               /\ sp_absolute_sizes_MB[SP_RowOf(j)][k] = Frac(0, 1)
    /\ \A b \in DOMAIN tm_bars :
          /\ Len(tm_bars[b].normalized) = Len(DatasetNames)
          /\ \A j \in DOMAIN DatasetNames :
                LET ds_values == tm_data[DatasetNames[j]]
                IN (CSR_BASELINE_KEY \in DOMAIN ds_values
                      /\ tm_bars[b].technique \notin DOMAIN ds_values) =>
                         /\ tm_bars[b].normalized[j] = Frac(0, 1)
                         /\ tm_bars[b].absolute[j] = Frac(0, 1)

\* ====================================================================
\* The caller's table across calls of plot_normalized_with_annotation

\* C13: plot_normalized_with_annotation never alters the table passed to it:
\* after every call, with include_our_data False or True, the caller's table
\* is the table it passed (same datasets, same series keys, 'Our' included,
\* same values), so after any number of calls the module-level table is still
\* the one the first call received.
C13_CallerTableUnaltered ==
    \A i \in DOMAIN call_log :
        /\ call_log[i].table_after = call_log[i].table_before
        /\ SPACE_DATA = call_log[1].table_before

\* A call with include_our_data False has returned three-entry rows for a
\* table whose datasets both hold 'Our', and the table still holds it.
C13_Witness ==
    /\ Len(call_log) >= 1
    /\ call_log[1].include = FALSE
    /\ call_log[1].exc = "none"
    /\ Len(call_log[1].normalized) = 2
    /\ Len(call_log[1].normalized[1]) = 3
    /\ \A ds \in DOMAIN SPACE_DATA : OUR_DATA_KEY \in DOMAIN SPACE_DATA[ds]

\* C14: two calls on the same table with the same flag give the same ratios,
\* the same absolute values and the same outcome, wherever they stand in the
\* sequence of calls and whatever calls (with include_our_data False) were
\* made before or between them; every call receives the table as the first
\* call received it.
C14_RepeatedCallsAgree ==
    \A i, j \in DOMAIN call_log :
        /\ call_log[i].table_before = call_log[1].table_before
        /\ call_log[i].include = call_log[j].include =>
              /\ call_log[i].normalized = call_log[j].normalized
              /\ call_log[i].absolute = call_log[j].absolute
              /\ call_log[i].exc = call_log[j].exc

\* include_our_data True, then False, then True again on a table that holds
\* 'Our' with a non-zero value: the third call still reports the 'Our' ratio.
C14_Witness ==
    /\ Len(call_log) = 3
    /\ call_log[1].include = TRUE
    /\ call_log[2].include = FALSE
    /\ call_log[3].include = TRUE
    /\ call_log[3].exc = "none"
    /\ Len(call_log[3].normalized) = 2
    /\ call_log[3].normalized[1][4] = One
    /\ Len(call_log[2].normalized[1]) = 3

\* ====================================================================
\* Order of the datasets

\* The names of seq are in ascending lexicographic order.
LexAscending(seq) ==
    \A i, j \in DOMAIN seq : i < j => <<seq[i], seq[j]>> = <<"amazon", "dblp">>

\* The row plot_normalized_with_annotation computes for a dataset with a
\* non-zero baseline.
ExpectedSpaceRow(ds_values, formats) ==
    [k \in DOMAIN formats |->
        IF formats[k] \in DOMAIN ds_values
        THEN Frac(ds_values[formats[k]], ds_values[CSR_BASELINE_KEY])
        ELSE Frac(0, 1)]

\* The entry plot_time_comparison_normalized computes for a technique in a
\* dataset.
ExpectedTimeEntry(ds_values, technique) ==
    IF /\ technique \in DOMAIN ds_values
       /\ CSR_BASELINE_KEY \in DOMAIN ds_values
       /\ ds_values[CSR_BASELINE_KEY] > 0
    THEN Frac(ds_values[technique], ds_values[CSR_BASELINE_KEY])
    ELSE Frac(0, 1)

\* C15: the normalized rows follow the dataset order supplied by the caller:
\* in plot_normalized_with_annotation the rows are those of the datasets of
\* datasets_list that have the baseline, in the order of datasets_list; in
\* plot_data_normalized_with_annotation the j-th row is that of
\* datasets_order[j]. Where no order is taken, the datasets are processed in
\* ascending lexicographic order of their names, whatever order the table
\* holds them in: the list __main__ passes to plot_normalized_with_annotation,
\* and the list plot_time_comparison_normalized iterates over, whose j-th
\* name gives the j-th entry of every group of bars.
C15_RowsFollowDatasetOrder ==
    /\ SP_InLoopOrAfter =>
          \A j \in DOMAIN datasets_list :
              (j < sp_i /\ ~ SP_LacksBaseline(j)) =>
                  sp_normalized_sizes[SP_RowOf(j)] =
                      ExpectedSpaceRow(current_data[datasets_list[j]],
                                       current_formats(include_our_data))
    /\ sp_pc = "main_called" =>
          /\ LexAscending(datasets_list)
          /\ Range(datasets_list) = DOMAIN data_to_plot
          /\ Len(datasets_list) = Cardinality(DOMAIN data_to_plot)
    /\ rl_pc \in {"loop", "plot", "returned", "raised"} =>
          /\ Len(rl_normalized_values) = rl_i - 1
          /\ \A j \in DOMAIN rl_normalized_values :
                rl_normalized_values[j] =
                    [k \in DOMAIN items_order |->
                        ExpectedRatio(data_dict[datasets_order[j]], items_order[k],
                                      baseline_item_name)]
    /\ tm_pc \in {"loop", "returned"} =>
          /\ LexAscending(tm_datasets)
          /\ Range(tm_datasets) = DOMAIN tm_data
          /\ Len(tm_datasets) = Cardinality(DOMAIN tm_data)
          /\ \A b \in DOMAIN tm_bars : \A j \in DOMAIN tm_datasets :
                tm_bars[b].normalized[j] =
                    ExpectedTimeEntry(tm_data[tm_datasets[j]], tm_bars[b].technique)

\* The caller passed 'dblp' before 'amazon': the first row is dblp's (LogGraph
\* at ratio 1), the second amazon's (LogGraph absent, ratio 0).
C15_Witness ==
    /\ sp_pc = "plot"
    /\ datasets_list = <<"dblp", "amazon">>
    /\ LOGGRAPH_KEY \notin DOMAIN data_to_plot["amazon"]
    /\ Len(sp_normalized_sizes) = 2
    /\ sp_normalized_sizes[1][2] = One
    /\ sp_normalized_sizes[2][2] = Frac(0, 1)

\* ====================================================================
\* Properties of format_annotation_with_ratio

\* The text is the rendering of v with one decimal: 'nan' for NaN; otherwise
\* an optional '-', digits, '.', one digit, reading back as a number of tenths
\* within half a tenth of v, with '-' exactly for negative v.
RECURSIVE DigitsValue(_)
DigitsValue(chars) ==
    IF chars = <<>> THEN 0
    ELSE LET last == chars[Len(chars)]
             d == CHOOSE k \in 0 .. 9 : DigitChars[k + 1] = last
         IN 10 * DigitsValue(SubSeq(chars, 1, Len(chars) - 1)) + d

IsDigits(chars) == chars # <<>> /\ \A i \in DOMAIN chars : chars[i] \in Range(DigitChars)

RendersRatio(text, v) ==
    IF v.nan THEN text = <<"n", "a", "n">>
    ELSE LET negative == text # <<>> /\ text[1] = "-"
             body == IF negative THEN Tail(text) ELSE text
             n == Len(body)
         IN /\ negative <=> v.n < 0
            /\ n >= 3
            /\ body[n - 1] = "."
            /\ IsDigits(SubSeq(body, 1, n - 2))
            /\ IsDigits(<<body[n]>>)
            /\ LET tenths == 10 * DigitsValue(SubSeq(body, 1, n - 2))
                                + DigitsValue(<<body[n]>>)
                   mag == IF v.n < 0 THEN 0 - v.n ELSE v.n
               IN \* | mag / v.d - tenths / 10 | <= 1 / 20
                  /\ 20 * mag - 2 * tenths * v.d <= v.d
                  /\ 2 * tenths * v.d - 20 * mag <= v.d

\* C16: format_annotation_with_ratio returns the empty string exactly when
\* show_ratio is false or the normalized value equals 1.0; for every other
\* value it returns the ratio, rendered with one decimal, followed by 'x';
\* two calls that differ only in the absolute value and the unit return the
\* same text.
C16_AnnotationText ==
    fa_pc = "returned" =>
        /\ \A i \in DOMAIN fa_args :
              LET v == fa_args[i].normalized_value
                  hidden == \/ ~ fa_args[i].show_ratio
                            \/ (~ v.nan /\ v.n = 1 /\ v.d = 1)
              IN /\ fa_text[i] = <<>> <=> hidden
                 /\ ~ hidden =>
                       /\ fa_text[i][Len(fa_text[i])] = "x"
                       /\ RendersRatio(SubSeq(fa_text[i], 1, Len(fa_text[i]) - 1), v)
        /\ fa_text[1] = fa_text[2]

\* The ratio 3/4 with different absolute values and units in the two calls:
\* both return '0.8x'.
C16_Witness ==
    /\ fa_pc = "returned"
    /\ fa_args[1].normalized_value = Frac(3, 4)
    /\ fa_args[1].show_ratio
    /\ fa_args[1].absolute_value # fa_args[2].absolute_value
    /\ fa_args[1].unit # fa_args[2].unit
    /\ fa_text[1] = <<"0", ".", "8", "x">>
    /\ fa_text[2] = <<"0", ".", "8", "x">>

\* ====================================================================
\* Properties of group_components

\* The byte count of a component of the input, 0 when it is absent.
ComponentValue(comp) ==
    IF comp \in DOMAIN detailed_data THEN detailed_data[comp] ELSE 0

\* The total of a group of the result, 0 when the group is absent.
GroupTotal(group) ==
    IF group \in DOMAIN grouped THEN grouped[group] ELSE 0

RECURSIVE SumOver(_)
SumOver(comps) ==
    IF comps = {} THEN 0
    ELSE LET comp == CHOOSE c \in comps : TRUE
         IN ComponentValue(comp) + SumOver(comps \ {comp})

NamedGroups ==
    {"Adjacency Lists", "Parent Lists", "Fixed-size Properties",
     "Variable-size Properties", "Type System", "Node ID Mapping"}

KnownComponents ==
    {"nodeAdjLists", "edgeAdjLists", "nodeParentLists", "nodeIntLikeProperties",
     "edgeIntLikeProperties", "nodeDoubleProperties", "edgeDoubleProperties",
     "varSize", "typesSystemOverhead", "labels", "nodePkToId"}

\* C17: group_components aggregates by a fixed rollup table, an absent
\* component counting as 0: 'Adjacency Lists' = nodeAdjLists + edgeAdjLists,
\* 'Parent Lists' = nodeParentLists, 'Fixed-size Properties' =
\* nodeIntLikeProperties + edgeIntLikeProperties + nodeDoubleProperties +
\* edgeDoubleProperties, 'Variable-size Properties' = varSize, 'Type System' =
\* typesSystemOverhead + labels, 'Node ID Mapping' = nodePkToId (a group left
\* out of the result has total 0).
C17_RollupTable ==
    gc_pc = "returned" =>
        /\ GroupTotal("Adjacency Lists") =
              ComponentValue("nodeAdjLists") + ComponentValue("edgeAdjLists")
        /\ GroupTotal("Parent Lists") = ComponentValue("nodeParentLists")
        /\ GroupTotal("Fixed-size Properties") =
              ComponentValue("nodeIntLikeProperties")
              + ComponentValue("edgeIntLikeProperties")
              + ComponentValue("nodeDoubleProperties")
              + ComponentValue("edgeDoubleProperties")
        /\ GroupTotal("Variable-size Properties") = ComponentValue("varSize")
        /\ GroupTotal("Type System") =
              ComponentValue("typesSystemOverhead") + ComponentValue("labels")
        /\ GroupTotal("Node ID Mapping") = ComponentValue("nodePkToId")

\* Two of the four fixed-size components and one adjacency component are
\* present with non-zero sizes, the rest absent.
C17_Witness ==
    /\ gc_pc = "returned"
    /\ DOMAIN detailed_data =
          {"edgeIntLikeProperties", "nodeDoubleProperties", "edgeAdjLists"}
    /\ \A comp \in DOMAIN detailed_data : detailed_data[comp] = 1
    /\ grouped = [g \in {"Adjacency Lists", "Fixed-size Properties"} |->
                     IF g = "Adjacency Lists" THEN 1 ELSE 2]

\* C18: every component that is not one of the eleven known ones is folded
\* into 'Other': the 'Other' total is the sum of the values of all the
\* unrecognized components, and none of them contributes to another group
\* (the named groups together hold exactly the sum of the known components).
C18_UnknownFoldedIntoOther ==
    gc_pc = "returned" =>
        /\ GroupTotal("Other") = SumOver(DOMAIN detailed_data \ KnownComponents)
        /\ LET named == NamedGroups \cap DOMAIN grouped
               RECURSIVE Total(_)
               Total(groups) ==
                   IF groups = {} THEN 0
                   ELSE LET g == CHOOSE x \in groups : TRUE
                        IN grouped[g] + Total(groups \ {g})
           IN Total(named) = SumOver(DOMAIN detailed_data \cap KnownComponents)

\* Two unrecognized components with non-zero sizes next to a known one.
C18_Witness ==
    /\ gc_pc = "returned"
    /\ DOMAIN detailed_data = {"stringPool", "edgeIndex", "varSize"}
    /\ \A comp \in DOMAIN detailed_data : detailed_data[comp] = 1
    /\ grouped["Other"] = 2
    /\ grouped["Variable-size Properties"] = 1

\* C19: group_components drops the zero-valued groups: every group of the
\* result other than '_other_details' has a strictly positive total, a group
\* is in the result exactly when its components sum to more than 0, and
\* '_other_details' comes with 'Other' only.
C19_NoZeroGroups ==
    gc_pc = "returned" =>
        /\ DOMAIN grouped \subseteq NamedGroups \cup {"Other", "_other_details"}
        /\ \A g \in DOMAIN grouped \ {"_other_details"} : grouped[g] > 0
        /\ "Adjacency Lists" \in DOMAIN grouped <=>
              ComponentValue("nodeAdjLists") + ComponentValue("edgeAdjLists") > 0
        /\ "Parent Lists" \in DOMAIN grouped <=> ComponentValue("nodeParentLists") > 0
        /\ "Fixed-size Properties" \in DOMAIN grouped <=>
              SumOver({"nodeIntLikeProperties", "edgeIntLikeProperties",
                       "nodeDoubleProperties", "edgeDoubleProperties"}) > 0
        /\ "Variable-size Properties" \in DOMAIN grouped <=>
              ComponentValue("varSize") > 0
        /\ "Type System" \in DOMAIN grouped <=>
              ComponentValue("typesSystemOverhead") + ComponentValue("labels") > 0
        /\ "Node ID Mapping" \in DOMAIN grouped <=> ComponentValue("nodePkToId") > 0
        /\ "Other" \in DOMAIN grouped <=>
              SumOver(DOMAIN detailed_data \ KnownComponents) > 0
        /\ "_other_details" \in DOMAIN grouped <=> "Other" \in DOMAIN grouped

\* Three components present, two of them with size 0 (a known one and an
\* unrecognized one): only the group of the third is returned.
C19_Witness ==
    /\ gc_pc = "returned"
    /\ DOMAIN detailed_data = {"nodeParentLists", "stringPool", "labels"}
    /\ detailed_data["nodeParentLists"] = 0
    /\ detailed_data["stringPool"] = 0
    /\ detailed_data["labels"] = 1
    /\ DOMAIN grouped = {"Type System"}

\* ====================================================================
\* Properties of plot_all.py

GA_Printed(message) == \E i \in DOMAIN ga_printed : ga_printed[i] = message

\* C20: when the relabelling step of generate_all_plots raises the
\* baseline-missing ValueError, generate_all_plots re-raises it to the top
\* level: the error stays in flight past the handler and reaches the handler
\* of __main__, the success messages are never printed,
\* verify_all_expected_plots is never run, and when the run ends its exit
\* status is 1.
C20_RelabelErrorEndsRun ==
    ga_raised = <<"relabelling", "ValueError">> =>
        /\ ga_pc \in {"except", "finally", "main_except", "exited"}
        /\ ga_exc = "ValueError"
        /\ ~ ga_verified
        /\ ~ GA_Printed("All plots generated successfully!")
        /\ ~ GA_Printed("Plot generation completed successfully!")
        /\ ga_status # "exit 0"
        /\ ga_pc \in {"main_except", "exited"} => GA_Printed("Error generating plots")
        /\ ga_pc = "exited" => /\ ga_status = "exit 1"
                               /\ GA_Printed("Fatal error")

\* The seven steps before it completed, the relabelling step raised
\* ValueError, and the run has ended with status 1.
C20_Witness ==
    /\ ga_raised = <<"relabelling", "ValueError">>
    /\ ga_pc = "exited"
    /\ ga_status = "exit 1"
    /\ ga_step = 8
    /\ Len(ga_printed) = 12

\* C21: generate_all_plots restores the working directory: once the try block
\* has been left, by the success path or with an exception of any kind in
\* flight, the working directory is again the one generate_all_plots found
\* when it was called (one of the start directories, never the plots
\* directory it changed into); inside the try block it is the plots
\* directory.
C21_WorkingDirectoryRestored ==
    /\ ga_pc \in {"verify", "main_except", "exited"} =>
          /\ ga_cwd \in StartDirs
          /\ ga_cwd = original_cwd
    /\ ga_pc \in {"steps", "success", "except", "finally"} =>
          /\ ga_cwd = "plots"
          /\ original_cwd \in StartDirs

\* A step in the middle was interrupted (KeyboardInterrupt skips the except
\* clause) and the run has ended back in the directory it started from.
C21_Witness ==
    /\ ga_pc = "exited"
    /\ ga_raised = <<"pareto", "KeyboardInterrupt">>
    /\ ga_cwd = "thesis"
    /\ original_cwd = "thesis"
    /\ ~ GA_Printed("Error generating plots")

\* ====================================================================
\* Properties of plot_pareto_for_datasets

\* Figures handled so far.
PL_Done == Len(pl_saved)

\* C22: in plot_pareto_for_datasets a frontier line is drawn for a (query
\* type, dataset) pair exactly when at least two points were collected and
\* the frontier computed for them has at least two points; with zero or one
\* collected point no frontier is computed and nothing is drawn, with a
\* one-point frontier nothing is drawn; either way the figure is saved under
\* <query type>/<dataset>.pdf and the loop goes on: one file per iteration,
\* all iterations made when the function returns.
C22_FrontierLineOnlyForTwoPoints ==
    /\ PL_Done > 0 =>
          /\ pl_fig.line # <<>> <=>
                (Len(pl_fig.points_for_pareto) >= 2 /\ Len(pl_fig.frontier) >= 2)
          /\ Len(pl_fig.points_for_pareto) <= 1 =>
                (~ pl_fig.computed /\ pl_fig.line = <<>>)
          /\ Len(pl_fig.points_for_pareto) >= 2 =>
                (pl_fig.computed /\ Len(pl_fig.frontier) >= 1)
          /\ pl_saved[PL_Done] = <<pl_fig.query_type, pl_fig.dataset>>
    /\ pl_pc = "loop" => PL_Done = (pl_q - 1) * Len(pl_datasets) + (pl_d - 1)
    /\ pl_pc = "returned" =>
          /\ PL_Done = Len(QueryTypes) * Len(pl_datasets)
          /\ \A q \in DOMAIN QueryTypes : \A ds \in DOMAIN space_data :
                \E i \in DOMAIN pl_saved : pl_saved[i] = <<QueryTypes[q], ds>>

\* Two points were collected for the first dataset, one dominating the other:
\* the frontier has one point, no line is drawn, the figure is saved and the
\* second dataset is next.
C22_Witness ==
    /\ pl_pc = "loop"
    /\ PL_Done = 1
    /\ pl_d = 2
    /\ Len(pl_fig.points_for_pareto) = 2
    /\ pl_fig.computed
    /\ Len(pl_fig.frontier) = 1
    /\ pl_fig.line = <<>>

\* ====================================================================
\* Properties of the technique selection of relabelling.py

\* The position of a name in MASTER_TECHNIQUES_ORDER.
MasterPosition(tech) ==
    CHOOSE i \in DOMAIN MASTER_TECHNIQUES_ORDER : MASTER_TECHNIQUES_ORDER[i] = tech

\* C23: the techniques relabelling.py plots always include the baseline
\* technique, are all names of MASTER_TECHNIQUES_ORDER, hold no name twice
\* and come in the order of MASTER_TECHNIQUES_ORDER, whatever
\* CHOSEN_TECHNIQUES_TO_PLOT is: None, a list without the baseline, a list
\* with unknown or repeated names.
C23_PlottedTechniques ==
    ts_pc = "selected" =>
        LET final == techniques_for_plot_final
        IN /\ \E i \in DOMAIN final : final[i] = "CSV"
           /\ \A i \in DOMAIN final :
                 \E k \in DOMAIN MASTER_TECHNIQUES_ORDER :
                    MASTER_TECHNIQUES_ORDER[k] = final[i]
           /\ \A i, j \in DOMAIN final :
                 i < j => MasterPosition(final[i]) < MasterPosition(final[j])
           /\ \A i, j \in DOMAIN final : i # j => final[i] # final[j]

\* The list chosen has no baseline, an unknown name and a name twice, out of
\* master order: the baseline and the known names are plotted, in master
\* order.
C23_Witness ==
    /\ ts_pc = "selected"
    /\ CHOSEN_TECHNIQUES_TO_PLOT = [is_none |-> FALSE, list |-> <<"BFS", "zstd", "BFS">>]
    /\ techniques_for_plot_final = <<"CSV", "BFS">>

\* ====================================================================
\* Properties of repeated calls of pareto_frontier

\* C24: pareto_frontier is pure: the list passed to it is left as it was
\* (same elements, same order), every call starts from an empty frontier and
\* a running minimum of infinity whatever ran before, and every call on the
\* same list returns what the first call on it returned, whatever calls were
\* made before it or were in progress beside it.
C24_PureFunction ==
    /\ rp_points = rp_given
    /\ \A frame \in {rp_frame, rp_other} :
          (frame.pc = "loop" /\ frame.i = 1) =>
             (frame.pareto_front = <<>> /\ frame.min_y = inf)
    /\ rp_first # <<>> => rp_last = rp_first

\* The second call on an unsorted list has returned while a call on another
\* list is in its loop; the list is as it was and the result is the one of
\* the first call.
C24_Witness ==
    /\ rp_given = <<<<1, 0>>, <<0, 1>>>>
    /\ rp_points = <<<<1, 0>>, <<0, 1>>>>
    /\ rp_frame.pc = "returned"
    /\ rp_frame.calls = 2
    /\ rp_other.pc = "loop"
    /\ rp_other.i = 2
    /\ rp_first = << <<<<0, 1>>, <<1, 0>>>> >>
    /\ rp_last = rp_first

\* ====================================================================
\* Properties of plot_memory_breakdown_stacked

\* The sum of the raw sizes of a 'detailed' dict.
RECURSIVE DetailedTotal(_, _)
DetailedTotal(detailed, comps) ==
    IF comps = {} THEN 0
    ELSE LET comp == CHOOSE c \in comps : TRUE
         IN detailed[comp] + DetailedTotal(detailed, comps \ {comp})

\* The exact sum of the percentages of a dataset over the given components.
RECURSIVE PercentSum(_, _)
PercentSum(proportions, comps) ==
    IF comps = {} THEN Frac(0, 1)
    ELSE LET comp == CHOOSE c \in comps : TRUE
             rest == PercentSum(proportions, comps \ {comp})
         IN Frac(proportions[comp].n * rest.d + rest.n * proportions[comp].d,
                 proportions[comp].d * rest.d)

\* The datasets the second loop has handled.
MB_Handled ==
    {sorted_datasets(memory_data)[i] :
        i \in {j \in 1 .. Len(sorted_datasets(memory_data)) : j < mb_i}}

C26_OrderIndependent ==
    (pm_pc["given"] = "returned" /\ pm_pc["permuted"] = "returned") =>
        pm_front_permuted = pm_front

\* Both calls returned the same two points for a list of three and a
\* different arrangement of it, neither in sorted order.
C26_Witness ==
    /\ pm_pc["given"] = "returned"
    /\ pm_pc["permuted"] = "returned"
    /\ pm_points = <<<<1, 0>>, <<0, 1>>, <<1, 1>>>>
    /\ pm_permuted = <<<<1, 1>>, <<1, 0>>, <<0, 1>>>>
    /\ pm_front = <<<<0, 1>>, <<1, 0>>>>
    /\ pm_front_permuted = <<<<0, 1>>, <<1, 0>>>>

\* ====================================================================
\* Properties of the frontier line of plot_pareto_for_datasets

\* C27: the frontier.sort() of plot_pareto_for_datasets never changes the
\* list pareto_frontier returned: that list is already ascending in (x, y),
\* so the polyline goes through the points in the order they were returned.
C27_SortLeavesFrontier ==
    (Len(pl_saved) > 0 /\ pl_fig.line # <<>>) =>
        /\ pl_fig.line = pl_fig.frontier
        /\ \A i \in 1 .. Len(pl_fig.frontier) - 1 :
              \/ pl_fig.frontier[i][1] < pl_fig.frontier[i + 1][1]
              \/ /\ pl_fig.frontier[i][1] = pl_fig.frontier[i + 1][1]
                 /\ pl_fig.frontier[i][2] <= pl_fig.frontier[i + 1][2]

\* The points were collected in descending x order and both are on the
\* frontier: the line goes through them in ascending x order, as returned.
C27_Witness ==
    /\ Len(pl_saved) > 0
    /\ pl_fig.points_for_pareto = <<<<1, 0>>, <<0, 1>>>>
    /\ pl_fig.frontier = <<<<0, 1>>, <<1, 0>>>>
    /\ pl_fig.line = <<<<0, 1>>, <<1, 0>>>>

\* ====================================================================
\* Alignment of the rows with the datasets at the plotting stage

\* C28: whenever plot_normalized_with_annotation reaches the plotting stage,
\* the normalized and the absolute list have one row per name of
\* datasets_list and row j holds the values of datasets_list[j], also when
\* some dataset lacks the 'CSR' baseline. Fails: a dataset without the
\* baseline gets no row, so the lists are shorter than datasets_list and the
\* rows after it stand at the positions of other datasets.
C28_RowsAlignedWithDatasets ==
    sp_pc = "plot" =>
        /\ Len(sp_normalized_sizes) = Len(datasets_list)
        /\ Len(sp_absolute_sizes_MB) = Len(datasets_list)
        /\ \A j \in DOMAIN datasets_list :
              ~ SP_LacksBaseline(j) =>
                  sp_normalized_sizes[j] =
                      ExpectedSpaceRow(current_data[datasets_list[j]],
                                       current_formats(include_our_data))

\* ====================================================================
\* The y limit of plot_time_comparison_normalized

\* C29: the upper y limit plot_time_comparison_normalized sets is at least
\* the largest normalized value of any technique drawn, in any dataset, so no
\* bar extends beyond the axis. Fails: the limit is 1.8 times the largest
\* value of the technique drawn last, and a technique drawn before it can
\* have a larger value.
C29_BarsWithinYLimit ==
    (tm_pc = "returned" /\ tm_ylim # <<>>) =>
        \A b \in DOMAIN tm_bars : \A j \in DOMAIN tm_bars[b].normalized :
            ~ PyGt(tm_bars[b].normalized[j], tm_ylim[1])

\* ====================================================================
\* The files generate_all_plots leaves behind

\* C30: whenever generate_all_plots returns without raising, every file
\* verify_all_expected_plots expects is in the plots directory (the ten
\* renamed chart files and the two Pareto files of every dataset), so
\* verify_all_expected_plots returns True. Fails: without
\* scripts/memory-breakdown.json, or with one that holds nothing to plot, the
\* memory-breakdown step completes without saving its chart.
C30_AllExpectedFilesExist ==
    (ga_pc \in {"verify", "exited"} /\ ga_exc = "none") =>
        /\ \A file \in expected_files : file \in plot_files
        /\ ga_verified => GA_Printed("All expected files generated successfully!")

====
